---------------------------- MODULE Spec2Model ----------------------------
(***************************************************************************)
(* A model of Audra's request-dispatch core: path templates and route      *)
(* matching (routes.py), the Router (routes.py), the middleware chain      *)
(* builds of Route and Audra (routes.py, application.py), the exception    *)
(* boundary (middleware/errors.py), responses (responses.py) and the       *)
(* lifespan loop (application.py).                                         *)
(*                                                                         *)
(* Strings that the code inspects character by character (paths, path     *)
(* templates) are sequences of one-character strings.                      *)
(***************************************************************************)
EXTENDS Integers, Sequences, FiniteSets, TLC

(***************************************************************************)
(* Characters and small helpers                                            *)
(***************************************************************************)
Letters == {"a", "b", "c", "d", "e", "i", "m", "n", "p", "s", "t", "x", "y"}

\* the value of each decimal digit
DigitValue == ("0" :> 0) @@ ("1" :> 1) @@ ("2" :> 2) @@ ("3" :> 3) @@ ("4" :> 4)
              @@ ("5" :> 5) @@ ("6" :> 6) @@ ("7" :> 7) @@ ("8" :> 8) @@ ("9" :> 9)
Digits == DOMAIN DigitValue

\* [a-zA-Z_] and [A-Za-z0-9_\-] of PARAM_RE, over the model's alphabet
NameStart == Letters \cup {"_"}
NameChar == Letters \cup Digits \cup {"_", "-"}

None == "None"

Range(s) == {s[i] : i \in DOMAIN s}

\* Python's s[a:b] with 1-based a and exclusive 1-based b
Slice(s, a, b) == IF b <= a THEN <<>> ELSE SubSeq(s, a, b - 1)

\* str.removesuffix("/")
RemoveSuffixSlash(s) ==
    IF Len(s) > 0 /\ s[Len(s)] = "/" THEN SubSeq(s, 1, Len(s) - 1) ELSE s

\* the length of the longest run of characters of class cls in s from p on
RECURSIVE RunLen(_, _, _)
RunLen(s, p, cls) ==
    IF p <= Len(s) /\ s[p] \in cls THEN 1 + RunLen(s, p + 1, cls) ELSE 0

(***************************************************************************)
(* converters.py                                                           *)
(***************************************************************************)
StrConverter == "StrConverter"
IntConverter == "IntConverter"
\* a Converter subclass of the user's: pattern "[^/]+", convert returns
\* int(value)
UserConverter == "UserConverter"
\* what convert gives when int(value) raises ValueError
ConvertRaised == [type |-> "raise"]

\* Converter.pattern, as the character class its "+" repeats
ConverterClass(c, path) ==
    IF c = IntConverter THEN Digits ELSE Range(path) \ {"/"}

RECURSIVE ParseInt(_)
ParseInt(v) ==
    IF v = <<>> THEN 0
    ELSE 10 * ParseInt(SubSeq(v, 1, Len(v) - 1))
         + DigitValue[v[Len(v)]]

\* a convert that hands the matched text back whatever the converter is
Convert_text(c, v) == [type |-> "str", value |-> v]

\* Converter.convert
Convert(c, v) ==
    IF c = IntConverter THEN [type |-> "int", value |-> ParseInt(v)]
    ELSE IF c = UserConverter
    THEN IF Range(v) \subseteq Digits THEN [type |-> "int", value |-> ParseInt(v)]
         ELSE ConvertRaised
    ELSE [type |-> "str", value |-> v]

TagStr == <<"s", "t", "r">>
TagInt == <<"i", "n", "t">>

BASE_CONVERTERS == (TagStr :> StrConverter) @@ (TagInt :> IntConverter)

\* dict.get(key, default)
DictGet(d, k, default) == IF k \in DOMAIN d THEN d[k] ELSE default

\* a | b and a.update(b): the right operand wins
DictUnion(a, b) == b @@ a

(***************************************************************************)
(* routes.py: PARAM_RE and Route.compile_path                              *)
(***************************************************************************)
NoMatch == [ok |-> FALSE]

\* PARAM_RE (no whitespace in the model's alphabet) is
\* "{" name [":"] [annotation] "}" ["/"]; a marker that starts at p has its
\* name end before q, its annotation span q1 to q2 and its "}" at q2
Marker(t, p, q, q1, q2) ==
    IF ~(q2 <= Len(t) /\ t[q2] = "}") THEN NoMatch
    ELSE [ok |-> TRUE,
          start |-> p,
          name |-> Slice(t, p + 1, q),
          annotation |-> Slice(t, q1, q2),
          end |-> IF q2 + 1 <= Len(t) /\ t[q2 + 1] = "/" THEN q2 + 2 ELSE q2 + 1]

\* (?P<annotation>[a-zA-Z_][A-Za-z0-9_\-]*)? from q1 on
MarkerAnnotation(t, p, q, q1) ==
    Marker(t, p, q, q1,
           IF q1 <= Len(t) /\ t[q1] \in NameStart
           THEN q1 + RunLen(t, q1, NameChar) ELSE q1)

\* :? at q
MarkerColon(t, p, q) ==
    MarkerAnnotation(t, p, q, IF q <= Len(t) /\ t[q] = ":" THEN q + 1 ELSE q)

\* PARAM_RE tried at position p of template t
PARAM_RE_At(t, p) ==
    IF ~(p <= Len(t) /\ t[p] = "{") THEN NoMatch
    ELSE IF ~(p + 1 <= Len(t) /\ t[p + 1] \in NameStart) THEN NoMatch
    ELSE MarkerColon(t, p, p + 1 + RunLen(t, p + 1, NameChar))

\* PARAM_RE.finditer: the leftmost match at or after p
RECURSIVE PARAM_RE_Search(_, _)
MatchOrSearch(t, p, mt) == IF mt.ok THEN mt ELSE PARAM_RE_Search(t, p + 1)

PARAM_RE_Search(t, p) ==
    IF p > Len(t) THEN NoMatch ELSE MatchOrSearch(t, p, PARAM_RE_At(t, p))

\* compile_path lines 158-172, one turn of the loop for the marker mt: the
\* regex grows by the literal before the marker and by the marker's group
RECURSIVE CompileFrom(_, _, _)
CompileMarker(mt, lit, converter, rest) ==
    [regex |-> << [kind |-> "lit", chars |-> lit],
                  [kind |-> "group", name |-> mt.name, conv |-> converter] >>
               \o rest.regex,
     \* a later marker of the same name overwrites the earlier one
     converters |-> rest.converters @@ (mt.name :> converter)]

\* one turn of the loop, or line 174 after it: the tail path[index:] goes
\* into the regex as it is, not escaped; in the templates of ROUTES the
\* tail has no character that re reads as an operator ("{id" and "{1d}"
\* are not quantifiers, re takes them as the characters they are)
CompileTurn(t, index, convs, mt) ==
    IF ~mt.ok
    THEN [regex |-> << [kind |-> "lit", chars |-> Slice(t, index, Len(t) + 1)] >>,
          converters |-> <<>>]
    ELSE CompileMarker(mt,
                       Append(RemoveSuffixSlash(Slice(t, index, mt.start)), "/"),
                       DictGet(convs, IF mt.annotation = <<>> THEN TagStr ELSE mt.annotation,
                               StrConverter),
                       CompileFrom(t, mt.end, convs))

\* the loop of compile_path from index on: the regex as a sequence of
\* literal and named-group elements, and the name -> converter map
CompileFrom(t, index, convs) == CompileTurn(t, index, convs, PARAM_RE_Search(t, index))

CompiledPath(t, c) == [path |-> t, regex |-> c.regex, converters |-> c.converters]

compile_path(t, convs) == CompiledPath(t, CompileFrom(t, 1, convs))

\* re.compile(regex) of line 175: a group name must be an identifier (PARAM_RE
\* lets "-" into a name, re does not) and may be used once
GroupNames(regex) ==
    [k \in {j \in DOMAIN regex : regex[j].kind = "group"} |-> regex[k].name]

ReError == [exc |-> "re.error"]

re_error(regex) ==
    LET names == GroupNames(regex)
    IN \/ \E k \in DOMAIN names : "-" \in Range(names[k])
       \/ \E j, k \in DOMAIN names : j # k /\ names[j] = names[k]

(***************************************************************************)
(* re.Pattern.match of a compiled "^...$" regex                            *)
(***************************************************************************)
Fail == [ok |-> FALSE]

Max(S) == CHOOSE x \in S : \A y \in S : y <= x

\* elements k.. of regex against path from pos; groups are greedy and
\* backtrack to shorter runs; the result carries the groupdict
RECURSIVE RegexFrom(_, _, _, _)

\* the group e takes n characters from pos on
GroupTakes(e, path, pos, n, rest) ==
    [ok |-> TRUE, groups |-> rest.groups @@ (e.name :> Slice(path, pos, pos + n))]

GroupOfLength(regex, k, path, pos, n) ==
    GroupTakes(regex[k], path, pos, n, RegexFrom(regex, k + 1, path, pos + n))

\* good: the lengths with which the rest of the regex matches
LongestGroup(regex, k, path, pos, good) ==
    IF good = {} THEN Fail ELSE GroupOfLength(regex, k, path, pos, Max(good))

GroupFrom(regex, k, path, pos, run) ==
    LongestGroup(regex, k, path, pos,
                 {n \in 1..run : RegexFrom(regex, k + 1, path, pos + n).ok})

LiteralFrom(regex, k, path, pos, chars) ==
    IF pos + Len(chars) <= Len(path) + 1 /\ Slice(path, pos, pos + Len(chars)) = chars
    THEN RegexFrom(regex, k + 1, path, pos + Len(chars))
    ELSE Fail

RegexFrom(regex, k, path, pos) ==
    IF k > Len(regex)
    THEN IF pos = Len(path) + 1 THEN [ok |-> TRUE, groups |-> <<>>] ELSE Fail
    ELSE IF regex[k].kind = "lit"
    THEN LiteralFrom(regex, k, path, pos, regex[k].chars)
    ELSE GroupFrom(regex, k, path, pos,
                   RunLen(path, pos, ConverterClass(regex[k].conv, path)))

RegexMatch(regex, path) == RegexFrom(regex, 1, path, 1)

(***************************************************************************)
(* exceptions.py                                                           *)
(***************************************************************************)
\* BaseHTTPException.__init__: the status is the class's; the headers
\* argument is accepted and not stored
BaseHTTPException(name, status, headers) == [exc |-> name, status |-> status]

HTTPMethodNotAllowed(headers) == BaseHTTPException("HTTPMethodNotAllowed", 405, headers)
HTTPNotFound == BaseHTTPException("HTTPNotFound", 404, None)
HTTPNotImplemented == BaseHTTPException("HTTPNotImplemented", 501, None)
HTTPInternalServerError == BaseHTTPException("HTTPInternalServerError", 500, None)

MiddlewareLoadException(node, owner) ==
    [exc |-> "MiddlewareLoadException", node |-> node, owner |-> owner]
RouteAlreadyExists(route) == [exc |-> "RouteAlreadyExists", route |-> route]

(***************************************************************************)
(* The routes, the routers and the requests of the model                   *)
(***************************************************************************)
\* str.upper() on the method names of the model
Upper(m) == CASE m \in {"get", "Get"} -> "GET"
              [] m = "post" -> "POST"
              [] OTHER -> m

HTTPMethods == {"GET", "HEAD", "POST", "PUT", "DELETE"}

\* the Route objects that the routers of the model register and dispatch
\* to: Route(coro, path=..., methods=...)
RouterRoutes == <<
    [path |-> <<"/", "x">>, methods |-> <<"GET">>, converters |-> <<>>],
    [path |-> <<"/", "x">>, methods |-> <<"post">>, converters |-> <<>>],
    [path |-> <<"/", "{", "p", "}">>, methods |-> <<"PUT", "post">>, converters |-> <<>>],
    [path |-> <<"/", "x", "/", "{", "i", "d", ":", "i", "n", "t", "}">>,
     methods |-> <<"get", "POST">>, converters |-> <<>>],
    [path |-> <<"/", "{", "p", "}">>, methods |-> <<"DELETE", "GET">>, converters |-> <<>>],
    [path |-> <<"/", "x", "/", "{", "i", "d", ":", "c", "}">>, methods |-> <<"GET">>,
     converters |-> (<<"c">> :> UserConverter)]
>>

\* converters=... of a Route and of a Router: a tag of the route's own that
\* the router has too (with the other converter), and a tag of the router only
RouteOwnConverters == (<<"t">> :> StrConverter)
RouterOwnConverters == (<<"t">> :> IntConverter) @@ (<<"n">> :> IntConverter)

\* the Route(...) calls whose templates, converters and methods the matcher
\* is exercised with
MatcherRoutes == <<
    [path |-> <<"/", "i", "t", "e", "m", "s", "/", "{", "i", "d", ":", "i", "n", "t", "}">>,
     methods |-> <<"GET">>, converters |-> <<>>],
    [path |-> <<"/", "{", "p", ":", "n", "}">>, methods |-> <<"Get">>, converters |-> <<>>],
    [path |-> <<"/", "{", "p", ":", "t", "}">>, methods |-> <<"post">>,
     converters |-> RouteOwnConverters],
    [path |-> <<"/", "a", "/", "{", "i", "d">>, methods |-> <<"GET">>, converters |-> <<>>],
    [path |-> <<"/", "a", "/", "{", "1", "d", "}">>, methods |-> <<"GET">>, converters |-> <<>>],
    [path |-> <<"/", "{", "a", "-", "b", "}">>, methods |-> <<"GET">>, converters |-> <<>>],
    [path |-> <<"/", "{", "p", "}", "/", "{", "p", "}">>, methods |-> <<"GET">>,
     converters |-> <<>>],
    [path |-> <<"/", "a", "/", "{", "x", "}", "/", "b">>, methods |-> <<"GET">>,
     converters |-> <<>>]
>>

\* the Route objects that exist
ROUTES == RouterRoutes \o MatcherRoutes

RouteIds == DOMAIN RouterRoutes
MatcherIds == DOMAIN ROUTES \ RouteIds
Routers == {"router", "other"}

\* the most routes registered on one router
MaxRoutes == 3

RequestPaths == {<<"/">>, <<"/", "x">>, <<"/", "y">>, <<"/", "x", "/", "1">>,
                 <<"/", "x", "/", "y">>}
RootPaths == {<<>>, <<"/", "x">>}

(***************************************************************************)
(* routes.py: Route                                                        *)
(***************************************************************************)
\* the method set without the HEAD that lines 93-94 add
RouteMethods_no_head(methods) == {Upper(methods[i]) : i \in DOMAIN methods}

\* Route.__init__ lines 92-96: upper-case, GET adds HEAD, set()
RouteMethods(methods) ==
    LET up == {Upper(methods[i]) : i \in DOMAIN methods}
    IN IF "GET" \in up THEN up \cup {"HEAD"} ELSE up

_methods(r) == RouteMethods(ROUTES[r].methods)
_raw_path(r) == ROUTES[r].path

\* Route.__init__ lines 101-102
InitConverters(r) == DictUnion(BASE_CONVERTERS, ROUTES[r].converters)

\* Route.__init__ line 104: self._path, compiled once with the converters
\* the route was constructed with
CompiledPaths == [r \in DOMAIN ROUTES |-> compile_path(_raw_path(r), InitConverters(r))]
_path(r) == CompiledPaths[r]

FULL == "FULL"
METHOD_MISMATCH == "METHOD_MISMATCH"
NONE == "NONE"
\* no result: a convert of lines 203-208 raised and match raised with it
RAISED == "RAISED"

\* Route.match lines 202-213: the converted groupdict
ConvertParams(converters, groups) ==
    [name \in DOMAIN groups |-> Convert(DictGet(converters, name, StrConverter), groups[name])]

\* lines 202-213 with the converted parameters: nothing catches what a
\* convert raises
MatchConverted(params) ==
    IF ConvertRaised \in Range(params) THEN [matched |-> RAISED, params |-> <<>>]
    ELSE [matched |-> FULL, params |-> params]

\* Route.match lines 191-213, mt the result of self._path.regex.match(path)
MatchRegex(r, method, converters, mt) ==
    IF ~mt.ok THEN [matched |-> NONE, params |-> <<>>]
    ELSE IF method \notin _methods(r) THEN [matched |-> METHOD_MISMATCH, params |-> <<>>]
    ELSE MatchConverted(ConvertParams(converters, mt.groups))

MatchPath(r, path, method, compiled) ==
    MatchRegex(r, method, compiled.converters, RegexMatch(compiled.regex, path))

\* Route.match: True is FULL, None is METHOD_MISMATCH, False is NONE
match(r, path, method) ==
    IF path = _raw_path(r)
    THEN [matched |-> IF method \in _methods(r) THEN FULL ELSE METHOD_MISMATCH,
          params |-> <<>>]
    ELSE MatchPath(r, path, method, _path(r))

(***************************************************************************)
(* utils.py                                                                *)
(***************************************************************************)
IsPrefixOf(a, b) == Len(a) <= Len(b) /\ SubSeq(b, 1, Len(a)) = a

get_route_path(scope) ==
    LET path == scope.path
        root_path == scope.root_path
    IN IF root_path = <<>> THEN path
       ELSE IF ~IsPrefixOf(root_path, path) THEN path
       ELSE IF path = root_path THEN <<>>
       ELSE IF path[Len(root_path) + 1] = "/"
       THEN Slice(path, Len(root_path) + 1, Len(path) + 1)
       ELSE path

(***************************************************************************)
(* The objects of the model and the program's state                        *)
(***************************************************************************)
\* concurrent flows (one channel each)
NumFlows == 2
Flows == 1..NumFlows

\* the longest middleware list of a route or of the application
MaxMiddleware == 2

\* nodes are <<kind, id>>: Middleware instances, ASGIMiddleware instances,
\* the ExceptionMiddleware() a build of flow f creates, routes, the router
Mw(i) == <<"Middleware", i>>
Asgi(i) == <<"ASGIMiddleware", i>>
Em(f) == <<"ExceptionMiddleware", f>>
RouteNode(r) == <<"Route", r>>
RouterNode == <<"Router", 0>>
NoNode == <<"None", 0>>

MiddlewarePool == {Mw(1), Mw(2), Asgi(1)}
Nodes == MiddlewarePool \cup {Mw(3)} \cup {Em(f) : f \in Flows}
         \cup {RouteNode(r) : r \in RouteIds} \cup {RouterNode}

\* isinstance(m, Middleware): ASGIMiddleware is the one kind that is not
IsMiddleware(n) == n[1] # "ASGIMiddleware"

VARIABLES
    _routes,            \* Router._routes, per router
    _has_router,        \* Route._has_router
    _converters,        \* _converters.route[r] is Route._converters and
                        \* _converters.router[rt] is Router._converters
    result,             \* what the last direct call of a Router method gave
    _middleware,        \* Route._middleware, per route
    _user_middleware,   \* Audra._user_middleware
    __middleware__,     \* Audra.__middleware__
    _build_on_startup,  \* Audra._build_on_startup
    __lifespans__,      \* Audra.__lifespans__
    _injected,          \* lifespan._injected of the lifespan objects of the class
    userCode,           \* what the user's middleware bodies and handlers may do
    __stack__,          \* Audra.__stack__
    __has_loaded__,     \* Middleware.__has_loaded__, per node
    app,                \* Middleware.app, per node (NoNode: not set)
    hookRuns,           \* history: how often each node's on_load was called
    hookRaised,         \* history: how often each node's on_load raised
    frames,             \* per flow: its stack of coroutine frames
    scope,              \* per flow: the channel's scope
    exc,                \* per flow: the exception being raised, or NoExc
    sent,               \* per flow: the messages sent on its channel
    received,           \* per flow: the messages received from its channel
    outcome,            \* per flow: Pending, Returned, or Raised(e)
    trace,              \* history, per flow: the calls it made, in order
    request,            \* per flow: the Request of its handler (_fetched,
                        \* _disconnected, _body)
    running             \* the flow that runs now (0: all are suspended)

routerVars == <<_routes, _has_router, _converters, result>>
configVars == <<_middleware, _user_middleware, __middleware__, _build_on_startup,
               __lifespans__, _injected, userCode>>
chainVars == <<__stack__, __has_loaded__, app, hookRuns, hookRaised>>
flowVars == <<frames, scope, exc, sent, received, outcome, trace, running>>
requestVars == <<request>>
vars == <<routerVars, configVars, requestVars, chainVars, flowVars>>

NoExc == [exc |-> "None"]
Exception(what) == [exc |-> "Exception", what |-> what]
NameError(name) == [exc |-> "NameError", name |-> name]
AttributeError(name) == [exc |-> "AttributeError", name |-> name]
KeyError(key) == [exc |-> "KeyError", key |-> key]
AssertionError == [exc |-> "AssertionError"]

Pending == [kind |-> "pending"]
Returned == [kind |-> "returned"]
Raised(e) == [kind |-> "raised", error |-> e]

\* sequences of distinct elements of S, of length at most n
RECURSIVE SeqsUpTo(_, _)
SeqsUpTo(S, n) ==
    IF n = 0 THEN {<<>>}
    ELSE LET shorter == SeqsUpTo(S, n - 1)
         IN shorter \cup UNION {{Append(q, x) : x \in S \ Range(q)} : q \in shorter}

\* the most lifespan handlers a user declares for one phase
MaxHandlers == 2

\* lifespan objects: the application's own _startup and the user's handlers
InternalStartup == <<"_startup", 0>>
UserHandler(phase, k) == <<phase, k>>

\* Audra.__new__ lines 96-106: the declared handlers of each phase in
\* declaration order, then _startup inserted at index 0 of the startup list
Lifespans(n, m) ==
    [startup |-> <<InternalStartup>> \o [k \in 1..n |-> UserHandler("startup", k)],
     shutdown |-> [k \in 1..m |-> UserHandler("shutdown", k)]]

\* the most application objects constructed
MaxApps == 3

\* the handlers that the class declares for a phase: the user's handlers
\* found in the list, each once, in the order of their declaration
Declared(phase) ==
    LET n == Cardinality(Range(__lifespans__[phase]) \ {InternalStartup})
    IN [k \in 1..n |-> UserHandler(phase, k)]

\* the application objects constructed so far: each __new__ inserted one
\* _startup
Constructed == Cardinality({k \in DOMAIN __lifespans__.startup :
                               __lifespans__.startup[k] = InternalStartup})

\* Audra.__new__ lines 93-108 for one more instance of the class: the dict
\* inst.__lifespans__ is the class attribute of line 89, the same object for
\* every instance; each declared handler is appended to it (line 103) and
\* _startup inserted at index 0 (line 106); every lifespan object is given
\* the new instance as _injected (lines 102 and 105)
Audra_new ==
    /\ running = 0
    /\ Constructed < MaxApps
    /\ __lifespans__' = [startup |-> <<InternalStartup>> \o __lifespans__.startup
                                        \o Declared("startup"),
                         shutdown |-> __lifespans__.shutdown \o Declared("shutdown")]
    /\ _injected' = <<"Audra", Constructed>>
    /\ UNCHANGED <<routerVars, _middleware, _user_middleware, __middleware__, _build_on_startup,
                   userCode, requestVars, chainVars, flowVars>>

\* Request.__init__ (requests.py 61-67)
NewRequest == [_fetched |-> FALSE, _disconnected |-> FALSE, _body |-> <<>>]

NoResp == [status |-> 0, body |-> <<>>, content_length |-> -1]

Frame(fn, node, at) ==
    [fn |-> fn, node |-> node, at |-> at, i |-> 0, prev |-> NoNode, resp |-> NoResp,
     handler |-> NoNode]

Top(f) == frames[f][Len(frames[f])]
HasTop(f, fn, at) ==
    /\ frames[f] # <<>>
    /\ Top(f).fn = fn
    /\ Top(f).at = at

\* the stack with its top frame replaced
SetTop(st, fr) == [st EXCEPT ![Len(st)] = fr]
Pop(st) == SubSeq(st, 1, Len(st) - 1)

\* a flow may take a step when no other flow is between two suspension points
CanRun(f) == running \in {0, f} /\ exc[f] = NoExc /\ outcome[f] = Pending

\* the frame that a call of node n starts
CallFrame(n) ==
    Frame(CASE n[1] = "ExceptionMiddleware" -> "ExceptionMiddleware.__call__"
            [] n[1] = "Router" -> "Router.__call__"
            [] n[1] = "Route" -> "Route.__call__"
            [] OTHER -> "Middleware.__call__",
          n, "enter")

\* flow f goes on with the stack st and keeps running
Continue(f, st) ==
    /\ frames' = [frames EXCEPT ![f] = st]
    /\ running' = f
    /\ UNCHANGED <<exc, outcome>>

\* flow f goes on with the stack st after a point where it may be suspended
\* and another flow may run: an await of what the server or the user wrote
\* (send, receive, a load hook, a handler, the body of a user's middleware).
\* An await of a coroutine of the package itself runs on to that
\* coroutine's own first such await.
Suspend(f, st) ==
    /\ frames' = [frames EXCEPT ![f] = st]
    /\ running' = 0
    /\ UNCHANGED <<exc, outcome>>

\* the deepest stack of frames of one flow: the interpreter's recursion
\* limit, far beyond the depth of any chain without a cycle
MaxDepth == 16

RecursionError == [exc |-> "RecursionError"]

\* flow f calls node n from the stack st: the callee's frame is pushed,
\* unless the stack is at the recursion limit
Call(f, st, n) ==
    IF Len(st) >= MaxDepth
    THEN /\ frames' = [frames EXCEPT ![f] = st]
         /\ exc' = [exc EXCEPT ![f] = RecursionError]
         /\ running' = f
         /\ UNCHANGED outcome
    ELSE IF CallFrame(n).fn = "Middleware.__call__"
    THEN Suspend(f, Append(st, CallFrame(n)))
    ELSE Continue(f, Append(st, CallFrame(n)))

\* flow f returns from its top frame; with no frame left the flow is over
Return(f) ==
    /\ frames' = [frames EXCEPT ![f] = Pop(frames[f])]
    /\ outcome' = [outcome EXCEPT ![f] = IF Len(frames[f]) = 1 THEN Returned ELSE @]
    /\ running' = IF Len(frames[f]) = 1 THEN 0 ELSE f
    /\ UNCHANGED exc

\* flow f raises e in its top frame
Raise(f, e) ==
    /\ exc' = [exc EXCEPT ![f] = e]
    /\ running' = f
    /\ UNCHANGED <<frames, outcome>>

Called(f, ev) == trace' = [trace EXCEPT ![f] = Append(@, ev)]

(***************************************************************************)
(* The chain build shared by Route._build_middleware (routes.py 215-230)   *)
(* and Audra._build_middleware (application.py 137-152): the body of       *)
(* "for m in reversed(lst)", the top frame holding the index i of m in lst *)
(* and the local prev                                                      *)
(***************************************************************************)
\* a turn of the loop that marks m loaded and leaves m.app as it was
HookLoaded_unlinked(f, m) ==
    /\ __has_loaded__' = [__has_loaded__ EXCEPT ![m] = TRUE]
    /\ UNCHANGED <<hookRaised, app>>
    /\ Continue(f, SetTop(frames[f], [Top(f) EXCEPT !.i = @ - 1, !.prev = m, !.at = "loop"]))

\* m.on_load() returned: m.__has_loaded__ = True; m.app = prev; prev = m
HookLoaded(f, m) ==
    /\ __has_loaded__' = [__has_loaded__ EXCEPT ![m] = TRUE]
    /\ UNCHANGED hookRaised
    /\ app' = [app EXCEPT ![m] = Top(f).prev]
    /\ Continue(f, SetTop(frames[f], [Top(f) EXCEPT !.i = @ - 1, !.prev = m, !.at = "loop"]))

\* what the history keeps of lines 223 and 144: the exception raised and
\* the middleware whose hook had raised
LoadFault(f, m, owner) ==
    [ev |-> "raise", error |-> MiddlewareLoadException(Top(f).prev, owner), hook |-> m]

\* a loop that goes on with the next middleware when m.on_load() raised
HookFailed_continue(f, m, owner) ==
    /\ hookRaised' = [hookRaised EXCEPT ![m] = @ + 1]
    /\ app' = [app EXCEPT ![m] = Top(f).prev]
    /\ UNCHANGED __has_loaded__
    /\ Continue(f, SetTop(frames[f], [Top(f) EXCEPT !.i = @ - 1, !.prev = m, !.at = "loop"]))

\* m.on_load() raised, lines 223 and 146: the except clause raises a
\* MiddlewareLoadException, whose message names prev
HookFailed(f, m, owner) ==
    /\ exc' = [exc EXCEPT ![f] = MiddlewareLoadException(Top(f).prev, owner)]
    /\ frames' = [frames EXCEPT ![f] = SetTop(@, [Top(f) EXCEPT !.at = "raise"])]
    /\ running' = f
    /\ hookRaised' = [hookRaised EXCEPT ![m] = @ + 1]
    /\ UNCHANGED <<__has_loaded__, app, outcome>>

\* Middleware.on_load (base.py 36) does nothing; a user's subclass overrides
\* it with a hook that returns, raises, or awaits and then returns or raises;
\* Route.on_load (routes.py 232-233) builds the route's own chain
OnLoadBehaviours(m) ==
    IF m[1] = "Middleware" THEN userCode.on_load
    ELSE IF m[1] = "Route" THEN {"build"}
    ELSE {"return"}

\* the frame of route._build_middleware(), about to start its loop
RouteBuildFrame(route) ==
    [Frame("Route._build_middleware", route, "loop")
       EXCEPT !.i = Len(_middleware[route[2]]), !.prev = route]

\* m.on_load() of a Route m is awaited from the stack st
HookBuild(f, st, m) ==
    IF Len(st) >= MaxDepth
    THEN /\ frames' = [frames EXCEPT ![f] = st]
         /\ exc' = [exc EXCEPT ![f] = RecursionError]
         /\ running' = f
         /\ UNCHANGED outcome
    ELSE Continue(f, Append(st, RouteBuildFrame(m)))

\* a loop that runs the hook of every Middleware, loaded or not
BuildStep_reload(f, lst, owner) ==
    LET m == lst[Top(f).i]
    IN IF IsMiddleware(m)
       THEN /\ hookRuns' = [hookRuns EXCEPT ![m] = @ + 1]
            /\ \E b \in OnLoadBehaviours(m) :
                 CASE b = "return" ->
                        /\ HookLoaded(f, m)
                        /\ Called(f, [ev |-> "on_load", node |-> m])
                   [] b = "raise" ->
                        /\ HookFailed(f, m, owner)
                        /\ trace' = [trace EXCEPT ![f] =
                               @ \o <<[ev |-> "on_load", node |-> m], LoadFault(f, m, owner)>>]
                   [] b = "await" ->
                        \* the hook awaits something: the flow is suspended in it
                        /\ Suspend(f, SetTop(frames[f], [Top(f) EXCEPT !.at = "hook"]))
                        /\ Called(f, [ev |-> "on_load", node |-> m])
                        /\ UNCHANGED <<__has_loaded__, app, hookRaised>>
                   [] b = "build" ->
                        /\ HookBuild(f, SetTop(frames[f], [Top(f) EXCEPT !.at = "hook"]), m)
                        /\ Called(f, [ev |-> "on_load", node |-> m])
                        /\ UNCHANGED <<__has_loaded__, app, hookRaised>>
       ELSE /\ app' = [app EXCEPT ![m] = Top(f).prev]
            /\ Continue(f, SetTop(frames[f], [Top(f) EXCEPT !.i = @ - 1, !.prev = m]))
            /\ UNCHANGED <<__has_loaded__, hookRuns, hookRaised, trace>>

\* lines 218-227 and 141-150: one turn of "for m in reversed(lst)"
BuildStep(f, lst, owner) ==
    LET m == lst[Top(f).i]
    IN IF IsMiddleware(m) /\ ~__has_loaded__[m]
       THEN /\ hookRuns' = [hookRuns EXCEPT ![m] = @ + 1]
            /\ \E b \in OnLoadBehaviours(m) :
                 CASE b = "return" ->
                        /\ HookLoaded(f, m)
                        /\ Called(f, [ev |-> "on_load", node |-> m])
                   [] b = "raise" ->
                        /\ HookFailed(f, m, owner)
                        /\ trace' = [trace EXCEPT ![f] =
                               @ \o <<[ev |-> "on_load", node |-> m], LoadFault(f, m, owner)>>]
                   [] b = "await" ->
                        \* the hook awaits something: the flow is suspended in it
                        /\ Suspend(f, SetTop(frames[f], [Top(f) EXCEPT !.at = "hook"]))
                        /\ Called(f, [ev |-> "on_load", node |-> m])
                        /\ UNCHANGED <<__has_loaded__, app, hookRaised>>
                   [] b = "build" ->
                        /\ HookBuild(f, SetTop(frames[f], [Top(f) EXCEPT !.at = "hook"]), m)
                        /\ Called(f, [ev |-> "on_load", node |-> m])
                        /\ UNCHANGED <<__has_loaded__, app, hookRaised>>
       ELSE /\ app' = [app EXCEPT ![m] = Top(f).prev]
            /\ Continue(f, SetTop(frames[f], [Top(f) EXCEPT !.i = @ - 1, !.prev = m]))
            /\ UNCHANGED <<__has_loaded__, hookRuns, hookRaised, trace>>

\* the awaited hook of lst[i] ends, by returning or by raising: a user's
\* hook that was suspended, or the build of a Route, whose exception has
\* come up to the try of lines 220-223
HookResume(f, lst, owner) ==
    /\ IF exc[f] # NoExc
       THEN /\ HookFailed(f, lst[Top(f).i], owner)
            /\ Called(f, LoadFault(f, lst[Top(f).i], owner))
       ELSE \E b \in OnLoadBehaviours(lst[Top(f).i]) \ {"await"} :
              CASE b \in {"return", "build"} -> HookLoaded(f, lst[Top(f).i]) /\ UNCHANGED trace
                [] b = "raise" ->
                     /\ HookFailed(f, lst[Top(f).i], owner)
                     /\ Called(f, LoadFault(f, lst[Top(f).i], owner))
    /\ UNCHANGED hookRuns

(***************************************************************************)
(* routes.py: Route.invoke and Route._build_middleware                     *)
(***************************************************************************)
RouteOf(f) == Top(f).node[2]

\* Route.invoke lines 236-240
Route_invoke(f) ==
    /\ CanRun(f)
    /\ HasTop(f, "Route.invoke", "enter")
    /\ LET self == Top(f).node
           st == SetTop(frames[f], [Top(f) EXCEPT !.at = "check"])
       IN IF scope[f].type # "http"
          THEN Raise(f, HTTPNotImplemented)
          ELSE IF ~__has_loaded__[self]
          THEN Continue(f, Append(st, RouteBuildFrame(self)))
          ELSE Continue(f, st)
    /\ UNCHANGED <<routerVars, configVars, requestVars, chainVars, scope, sent, received, trace>>

\* Route.on_load lines 232-233, called on the route by itself: the chain is
\* built whether it was built before or not, then on_load returns
Route_on_load(f) ==
    /\ CanRun(f)
    /\ frames[f] # <<>>
    /\ Top(f).fn = "Route.on_load"
    /\ IF Top(f).at = "enter"
       THEN Continue(f, Append(SetTop(frames[f], [Top(f) EXCEPT !.at = "await"]),
                               RouteBuildFrame(Top(f).node)))
       ELSE Return(f)
    /\ UNCHANGED <<routerVars, configVars, requestVars, chainVars, scope, sent, received, trace>>

\* Route._build_middleware lines 218-227: one turn of the loop
Route_build_middleware(f) ==
    /\ CanRun(f)
    /\ HasTop(f, "Route._build_middleware", "loop")
    /\ Top(f).i >= 1
    /\ BuildStep(f, _middleware[RouteOf(f)], Top(f).node)
    /\ UNCHANGED <<routerVars, configVars, requestVars, __stack__, scope, sent, received>>

Route_on_load_resume(f) ==
    /\ running \in {0, f}
    /\ outcome[f] = Pending
    /\ HasTop(f, "Route._build_middleware", "hook")
    /\ HookResume(f, _middleware[RouteOf(f)], Top(f).node)
    /\ UNCHANGED <<routerVars, configVars, requestVars, __stack__, scope, sent, received>>

\* a build that makes the route itself the entry point
Route_build_finish_terminal(f) ==
    /\ CanRun(f)
    /\ HasTop(f, "Route._build_middleware", "loop")
    /\ Top(f).i = 0
    /\ app' = [app EXCEPT ![Top(f).node] = Top(f).node]
    /\ __has_loaded__' = [__has_loaded__ EXCEPT ![Top(f).node] = TRUE]
    /\ Return(f)
    /\ UNCHANGED <<routerVars, configVars, requestVars, __stack__, hookRuns, hookRaised, scope, sent, received, trace>>

\* Route._build_middleware lines 229-230, after the loop
Route_build_finish(f) ==
    /\ CanRun(f)
    /\ HasTop(f, "Route._build_middleware", "loop")
    /\ Top(f).i = 0
    /\ app' = [app EXCEPT ![Top(f).node] = Top(f).prev]
    /\ __has_loaded__' = [__has_loaded__ EXCEPT ![Top(f).node] = TRUE]
    /\ Return(f)
    /\ UNCHANGED <<routerVars, configVars, requestVars, __stack__, hookRuns, hookRaised, scope, sent, received, trace>>

\* Route.invoke lines 242-247
Route_invoke_check(f) ==
    /\ CanRun(f)
    /\ HasTop(f, "Route.invoke", "check")
    /\ LET self == Top(f).node
       IN IF scope[f].method \notin _methods(self[2])
          THEN /\ Called(f, [ev |-> "FrozenHeaders", allow |-> _methods(self[2])])
               /\ Raise(f, HTTPMethodNotAllowed(_methods(self[2])))
          ELSE /\ Called(f, [ev |-> "call", node |-> app[self]])
               /\ Call(f, SetTop(frames[f], [Top(f) EXCEPT !.at = "await"]), app[self])
    /\ UNCHANGED <<routerVars, configVars, requestVars, chainVars, scope, sent, received>>

\* self.app(...) returned: Route.invoke returns
Route_invoke_return(f) ==
    /\ CanRun(f)
    /\ HasTop(f, "Route.invoke", "await")
    /\ Return(f)
    /\ UNCHANGED <<routerVars, configVars, requestVars, chainVars, scope, sent, received, trace>>

(***************************************************************************)
(* responses.py                                                            *)
(***************************************************************************)
\* code points of the characters a body text is made of
Ord(c) == CASE c = "a" -> 97 [] c = "x" -> 120 [] c = "y" -> 121 [] OTHER -> 63

NoneValue == [type |-> "NoneType"]
Str(chars) == [type |-> "str", value |-> chars]
Bytes(b) == [type |-> "bytes", value |-> b]

\* _BaseResponse.encode
encode(body) ==
    IF body = NoneValue THEN <<>>
    ELSE IF body.type = "bytes" THEN body.value
    ELSE [k \in DOMAIN body.value |-> Ord(body.value[k])]

\* _BaseResponse.__init__ with no headers given: _process_headers sets
\* content-length unless the status is below 200, 204 or 304
Response(body, status) ==
    [status |-> status,
     body |-> encode(body),
     content_length |-> IF status >= 200 /\ status \notin {204, 304}
                        THEN Len(encode(body)) ELSE -1]

EmptyResponse == Response(NoneValue, 204)

StartMessage(status) == [type |-> "http.response.start", status |-> status]
BodyMessage(body) == [type |-> "http.response.body", body |-> body]

\* ExceptionMiddleware's send_ (errors.py 108-114): every ExceptionMiddleware
\* frame below notes a response start passing through it, in its local started
send_(st, message) ==
    [k \in DOMAIN st |->
        IF /\ st[k].fn = "ExceptionMiddleware.__call__"
           /\ st[k].at \in {"try", "except"}
           /\ message.type = "http.response.start"
        THEN [st[k] EXCEPT !.i = 1] ELSE st[k]]

\* await send(message): the message is passed to the server, the flow is
\* suspended in the await and goes on at the label at
Send(f, message, at) ==
    /\ sent' = [sent EXCEPT ![f] = Append(@, message)]
    /\ Suspend(f, send_(SetTop(frames[f], [Top(f) EXCEPT !.at = at]), message))

\* _BaseResponse.__call__ line 93
Response_call_start(f) ==
    /\ CanRun(f)
    /\ HasTop(f, "_BaseResponse.__call__", "enter")
    /\ Called(f, [ev |-> "response", status |-> Top(f).resp.status, body |-> Top(f).resp.body])
    /\ Send(f, StartMessage(Top(f).resp.status), "body")
    /\ UNCHANGED <<routerVars, configVars, requestVars, chainVars, scope, received>>

\* _BaseResponse.__call__ line 94
Response_call_body(f) ==
    /\ CanRun(f)
    /\ HasTop(f, "_BaseResponse.__call__", "body")
    /\ Send(f, BodyMessage(Top(f).resp.body), "sent")
    /\ UNCHANGED <<routerVars, configVars, requestVars, chainVars, scope, received, trace>>

\* the send of line 94 returned: _BaseResponse.__call__ returns
Response_call_return(f) ==
    /\ CanRun(f)
    /\ HasTop(f, "_BaseResponse.__call__", "sent")
    /\ Return(f)
    /\ UNCHANGED <<routerVars, configVars, requestVars, chainVars, scope, sent, received, trace>>

ResponseFrame(resp) == [Frame("_BaseResponse.__call__", NoNode, "enter") EXCEPT !.resp = resp]

(***************************************************************************)
(* routes.py: Route.__call__, the terminal handler of a route's chain      *)
(***************************************************************************)
\* a response object that a handler made and returns
ResponseObject(resp) == [type |-> "Response", response |-> resp]

\* what the user's handler does when awaited
HandlerOutcomes ==
    { [kind |-> "return", value |-> v] :
        v \in {NoneValue, Str(<<>>), Str(<<"a">>), Bytes(<<>>), Bytes(<<Ord("a")>>),
               ResponseObject(Response(Str(<<"x">>), 200)), [type |-> "dict"]} }
    \cup { [kind |-> "raise", value |-> NoneValue] }

\* FALSEY_RESP (utils.py 71) lists the types str, bytes, bytearray and
\* memoryview themselves, and None: "resp in FALSEY_RESP" holds of None only
_check_falsey(resp) == resp = NoneValue

\* Route.__call__ as lines 264-266 read by themselves: a dict, a list or a
\* tuple is answered with an EmptyResponse
Route_call_json(f) ==
    /\ CanRun(f)
    /\ HasTop(f, "Route.__call__", "handler")
    /\ \E h \in userCode.handler :
         /\ Called(f, [ev |-> "handler", node |-> Top(f).node, returned |-> h])
         /\ IF h.kind = "raise" THEN Raise(f, Exception("handler"))
            ELSE IF _check_falsey(h.value) \/ h.value.type = "dict"
            THEN Continue(f, Append(SetTop(frames[f], [Top(f) EXCEPT !.at = "await"]),
                                    ResponseFrame(EmptyResponse)))
            ELSE Raise(f, NameError("BaseResponse"))
    /\ UNCHANGED <<routerVars, configVars, requestVars, chainVars, scope, sent, received>>

\* scope["headers"] as a server passes it: the list of (name, value) pairs
\* of the ASGI specification, empty or not, or a scope without the key
MissingKey == "no key"
EmptyList == "[]"
HeaderPairs == "[(b'host', b'x')]"
ListHeaders == {EmptyList, HeaderPairs}
ScopeHeaders == ListHeaders \cup {MissingKey}

\* Request(scope, receive, send), what it raises: BaseRequest.__init__
\* (requests.py 42) reads scope["headers"] and Headers.__init__ (headers.py
\* 33) calls (headers or {}).items(), which a list that is not empty lacks
Request_init(sc) ==
    IF sc.headers = MissingKey THEN KeyError("headers")
    ELSE IF sc.headers = EmptyList THEN NoExc
    ELSE AttributeError("items")

\* Route.__call__ lines 252-256: the assert, the Request, and the await of
\* the handler, in which the flow is suspended
Route_call_enter(f) ==
    /\ CanRun(f)
    /\ HasTop(f, "Route.__call__", "enter")
    /\ IF scope[f].type # "http" THEN Raise(f, AssertionError)
       ELSE IF Request_init(scope[f]) # NoExc THEN Raise(f, Request_init(scope[f]))
       ELSE Suspend(f, SetTop(frames[f], [Top(f) EXCEPT !.at = "handler"]))
    /\ UNCHANGED <<routerVars, configVars, requestVars, chainVars, scope, sent, received, trace>>

\* Route.__call__ lines 256-274: the handler returned or raised
Route_call(f) ==
    /\ CanRun(f)
    /\ HasTop(f, "Route.__call__", "handler")
    /\ \E h \in userCode.handler :
         /\ Called(f, [ev |-> "handler", node |-> Top(f).node, returned |-> h])
         /\ IF h.kind = "raise" THEN Raise(f, Exception("handler"))
            ELSE IF _check_falsey(h.value)
            THEN Continue(f, Append(SetTop(frames[f], [Top(f) EXCEPT !.at = "await"]),
                                    ResponseFrame(EmptyResponse)))
            \* line 262: routes.py binds no name BaseResponse (responses.py
            \* exports Response and its subclasses, the base is _BaseResponse)
            ELSE Raise(f, NameError("BaseResponse"))
    /\ UNCHANGED <<routerVars, configVars, requestVars, chainVars, scope, sent, received>>

\* Route.__call__ line 274 returned
Route_call_return(f) ==
    /\ CanRun(f)
    /\ HasTop(f, "Route.__call__", "await")
    /\ Return(f)
    /\ UNCHANGED <<routerVars, configVars, requestVars, chainVars, scope, sent, received, trace>>

(***************************************************************************)
(* middleware/base.py: Middleware.__call__, as the user overrides it       *)
(***************************************************************************)
\* "pass" is the body of the base class (line 35); the others are what an
\* override does with self.app
MiddlewareBehaviours == {"forward", "forward_raise", "raise", "respond", "pass"}
Bodies == {<<>>, <<66>>}

Middleware_call(f) ==
    /\ CanRun(f)
    /\ HasTop(f, "Middleware.__call__", "enter")
    /\ LET self == Top(f).node
       IN \E b \in userCode.middleware :
            CASE b \in {"forward", "forward_raise"} ->
                   IF app[self] = NoNode
                   THEN Raise(f, AttributeError("app")) /\ UNCHANGED trace
                   ELSE /\ Called(f, [ev |-> "call", node |-> app[self]])
                        /\ Call(f, SetTop(frames[f],
                                    [Top(f) EXCEPT !.at = "await",
                                                   !.i = IF b = "forward" THEN 0 ELSE 1]),
                                app[self])
              [] b = "raise" -> Raise(f, Exception("middleware")) /\ UNCHANGED trace
              [] b = "respond" ->
                   \E body \in Bodies :
                     /\ Continue(f, Append(SetTop(frames[f], [Top(f) EXCEPT !.at = "await"]),
                                           ResponseFrame(Response(Bytes(body), 200))))
                     /\ UNCHANGED trace
              [] b = "pass" -> Return(f) /\ UNCHANGED trace
    /\ UNCHANGED <<routerVars, configVars, requestVars, chainVars, scope, sent, received>>

\* what the middleware awaited returned: it returns too, or raises
Middleware_call_after(f) ==
    /\ CanRun(f)
    /\ HasTop(f, "Middleware.__call__", "await")
    /\ IF Top(f).i = 1 THEN Raise(f, Exception("middleware")) ELSE Return(f)
    /\ UNCHANGED <<routerVars, configVars, requestVars, chainVars, scope, sent, received, trace>>

(***************************************************************************)
(* middleware/errors.py: ExceptionMiddleware                               *)
(***************************************************************************)
\* ExceptionMiddleware.__call__ lines 102-117.  self.next reads self.app,
\* which is unset until a build links the middleware: for an http scope the
\* AttributeError is raised inside the try of line 116
ExceptionMiddleware_call(f) ==
    /\ CanRun(f)
    /\ HasTop(f, "ExceptionMiddleware.__call__", "enter")
    /\ LET self == Top(f).node
           at == IF scope[f].type # "http" THEN "plain" ELSE "try"
       IN IF app[self] = NoNode
          THEN /\ frames' = [frames EXCEPT ![f] = SetTop(@, [Top(f) EXCEPT !.at = at])]
               /\ exc' = [exc EXCEPT ![f] = AttributeError("app")]
               /\ running' = f
               /\ UNCHANGED <<outcome, trace>>
          ELSE /\ Called(f, [ev |-> "call", node |-> app[self]])
               /\ Call(f, SetTop(frames[f], [Top(f) EXCEPT !.at = at]), app[self])
    /\ UNCHANGED <<routerVars, configVars, requestVars, chainVars, scope, sent, received>>

\* self.next(...) returned, or test(...) did
ExceptionMiddleware_return(f) ==
    /\ CanRun(f)
    /\ frames[f] # <<>>
    /\ Top(f).fn = "ExceptionMiddleware.__call__"
    /\ Top(f).at \in {"plain", "try", "except"}
    /\ Return(f)
    /\ UNCHANGED <<routerVars, configVars, requestVars, chainVars, scope, sent, received, trace>>

\* the error page of ExceptionMiddleware.test lines 90-96
ErrorStatus(error) == IF "status" \in DOMAIN error THEN error.status ELSE 500
ErrorPage(error) ==
    [status |-> ErrorStatus(error), body |-> <<60, ErrorStatus(error), 62>>,
     content_length |-> -1]

\* lines 118-119: except Exception as e: await self.test(..., error=e)
ExceptionMiddleware_except(f) ==
    /\ running \in {0, f}
    /\ exc[f] # NoExc
    /\ HasTop(f, "ExceptionMiddleware.__call__", "try")
    /\ exc' = [exc EXCEPT ![f] = NoExc]
    /\ frames' = [frames EXCEPT ![f] =
           Append(SetTop(frames[f], [Top(f) EXCEPT !.at = "except"]),
                  [Frame("ExceptionMiddleware.test", Top(f).node, "enter")
                     EXCEPT !.resp = ErrorPage(exc[f])])]
    /\ running' = f
    /\ Called(f, [ev |-> "test", node |-> Top(f).node, error |-> exc[f]])
    /\ UNCHANGED <<routerVars, configVars, requestVars, chainVars, scope, sent, received, outcome>>

\* ExceptionMiddleware.test line 100
ExceptionMiddleware_test_start(f) ==
    /\ CanRun(f)
    /\ HasTop(f, "ExceptionMiddleware.test", "enter")
    /\ Send(f, StartMessage(Top(f).resp.status), "body")
    /\ UNCHANGED <<routerVars, configVars, requestVars, chainVars, scope, received, trace>>

\* ExceptionMiddleware.test line 101
ExceptionMiddleware_test_body(f) ==
    /\ CanRun(f)
    /\ HasTop(f, "ExceptionMiddleware.test", "body")
    /\ Send(f, BodyMessage(Top(f).resp.body), "sent")
    /\ UNCHANGED <<routerVars, configVars, requestVars, chainVars, scope, received, trace>>

\* the send of line 101 returned: ExceptionMiddleware.test returns
ExceptionMiddleware_test_return(f) ==
    /\ CanRun(f)
    /\ HasTop(f, "ExceptionMiddleware.test", "sent")
    /\ Return(f)
    /\ UNCHANGED <<routerVars, configVars, requestVars, chainVars, scope, sent, received, trace>>

(***************************************************************************)
(* application.py: Audra                                                   *)
(***************************************************************************)
AppNode == <<"Audra", 0>>

\* a list with the user's middleware in front of the class's
AppMiddlewares_user_first(em) == <<em>> \o _user_middleware \o __middleware__

\* Audra._build_middleware line 138, em being the ExceptionMiddleware() made
AppMiddlewares(em) == <<em>> \o __middleware__ \o _user_middleware

BuildFrame(f) ==
    [Frame("Audra._build_middleware", Em(f), "loop")
       EXCEPT !.i = Len(AppMiddlewares(Em(f))), !.prev = RouterNode]

\* a startup-complete message has been sent on a lifespan channel
StartupCompleteSent ==
    \E g \in Flows : \E k \in DOMAIN sent[g] : sent[g][k].type = "lifespan.startup.complete"

\* Audra.__call__ lines 129-135.  The history of an HTTP flow starts with
\* what the server had been told when the flow arrived
Audra_call(f) ==
    /\ CanRun(f)
    /\ HasTop(f, "Audra.__call__", "enter")
    /\ LET st == SetTop(frames[f], [Top(f) EXCEPT !.at = "await"])
       IN CASE scope[f].type = "lifespan" ->
                 /\ Suspend(f, Append(st, Frame("Audra._lifespan_handler", AppNode, "receive")))
                 /\ UNCHANGED trace
            [] scope[f].type = "http" ->
                 /\ Continue(f, Append(st, Frame("Audra._handle_http", AppNode, "enter")))
                 /\ Called(f, [ev |-> "request", started |-> StartupCompleteSent])
            [] OTHER -> Return(f) /\ UNCHANGED trace
    /\ UNCHANGED <<routerVars, configVars, requestVars, chainVars, scope, sent, received>>

Audra_call_return(f) ==
    /\ CanRun(f)
    /\ HasTop(f, "Audra.__call__", "await")
    /\ Return(f)
    /\ UNCHANGED <<routerVars, configVars, requestVars, chainVars, scope, sent, received, trace>>

\* Audra._handle_http lines 155-158
Audra_handle_http(f) ==
    /\ CanRun(f)
    /\ HasTop(f, "Audra._handle_http", "enter")
    /\ scope' = [scope EXCEPT ![f].app = TRUE]
    /\ LET st == SetTop(frames[f], [Top(f) EXCEPT !.at = "built"])
       IN IF __stack__ = NoNode THEN Continue(f, Append(st, BuildFrame(f)))
          ELSE Continue(f, st)
    /\ UNCHANGED <<routerVars, configVars, requestVars, chainVars, sent, received, trace>>

\* Audra._build_middleware lines 141-150: one turn of the loop
Audra_build_middleware(f) ==
    /\ CanRun(f)
    /\ HasTop(f, "Audra._build_middleware", "loop")
    /\ Top(f).i >= 1
    /\ BuildStep(f, AppMiddlewares(Top(f).node), AppNode)
    /\ UNCHANGED <<routerVars, configVars, requestVars, __stack__, scope, sent, received>>

Audra_on_load_resume(f) ==
    /\ running \in {0, f}
    /\ outcome[f] = Pending
    /\ HasTop(f, "Audra._build_middleware", "hook")
    /\ HookResume(f, AppMiddlewares(Top(f).node), AppNode)
    /\ UNCHANGED <<routerVars, configVars, requestVars, __stack__, scope, sent, received>>

\* Audra._build_middleware line 152 and the caller's assignment
\* "self.__stack__ = await self._build_middleware()" (lines 158 and 165)
Audra_build_finish(f) ==
    /\ CanRun(f)
    /\ HasTop(f, "Audra._build_middleware", "loop")
    /\ Top(f).i = 0
    /\ __stack__' = Top(f).prev
    /\ Called(f, [ev |-> "__stack__", node |-> Top(f).prev])
    /\ Return(f)
    /\ UNCHANGED <<routerVars, configVars, requestVars, __has_loaded__, app, hookRuns, hookRaised,
                   scope, sent, received>>

\* Audra._handle_http line 160
Audra_handle_http_call(f) ==
    /\ CanRun(f)
    /\ HasTop(f, "Audra._handle_http", "built")
    /\ Called(f, [ev |-> "call", node |-> __stack__])
    /\ Call(f, SetTop(frames[f], [Top(f) EXCEPT !.at = "await"]), __stack__)
    /\ UNCHANGED <<routerVars, configVars, requestVars, chainVars, scope, sent, received>>

Audra_handle_http_return(f) ==
    /\ CanRun(f)
    /\ HasTop(f, "Audra._handle_http", "await")
    /\ Return(f)
    /\ UNCHANGED <<routerVars, configVars, requestVars, chainVars, scope, sent, received, trace>>

\* a _startup that never builds the stack
Audra_startup_skip(f) ==
    /\ CanRun(f)
    /\ HasTop(f, "Audra._startup", "enter")
    /\ Return(f)
    /\ UNCHANGED <<routerVars, configVars, requestVars, chainVars, scope, sent, received, trace>>

\* Audra._startup lines 162-165
Audra_startup(f) ==
    /\ CanRun(f)
    /\ HasTop(f, "Audra._startup", "enter")
    /\ IF _build_on_startup /\ __stack__ = NoNode
       THEN Continue(f, Append(SetTop(frames[f], [Top(f) EXCEPT !.at = "built"]), BuildFrame(f)))
       ELSE Return(f)
    /\ UNCHANGED <<routerVars, configVars, requestVars, chainVars, scope, sent, received, trace>>

Audra_startup_return(f) ==
    /\ CanRun(f)
    /\ HasTop(f, "Audra._startup", "built")
    /\ Return(f)
    /\ UNCHANGED <<routerVars, configVars, requestVars, chainVars, scope, sent, received, trace>>

(***************************************************************************)
(* application.py: Audra._lifespan_handler, lines 167-203.  The frame's    *)
(* prev[1] is the phase of the message being handled and i the index of    *)
(* the handler the loop over __lifespans__[phase] is at                    *)
(***************************************************************************)
\* the most messages the server passes to one lifespan channel
MaxMessages == 3

\* enums.py lines 34-41: the values of ReceiveEvent
ReceiveEvent == {"http.request", "http.disconnect", "websocket.accept", "websocket.receive",
                 "websocket.disconnect", "lifespan.startup", "lifespan.shutdown"}

\* what a server may pass: the two lifespan requests, another known type
\* and a type that ReceiveEvent does not know
LifespanMessages == {"lifespan.startup", "lifespan.shutdown", "http.disconnect", "lifespan.other"}

\* enums.py lines 28-31: the values of the four lifespan members of SendEvent
SendEvent(phase, answer) ==
    CASE phase = "startup" /\ answer = "complete" -> "lifespan.startup.complete"
      [] phase = "startup" /\ answer = "failed" -> "lifespan.startup.failed"
      [] phase = "shutdown" /\ answer = "complete" -> "lifespan.shutdown.complete"
      [] phase = "shutdown" /\ answer = "failed" -> "lifespan.shutdown.failed"

ValueError(what) == [exc |-> "ValueError", what |-> what]
Phase(f) == Top(f).prev[1]
LifespanMessage(type) == [type |-> type]

\* lines 169-174 and 188: message = await receive(); ReceiveEvent(message["type"])
Audra_lifespan_receive(f) ==
    /\ CanRun(f)
    /\ HasTop(f, "Audra._lifespan_handler", "receive")
    /\ Len(received[f]) < MaxMessages
    /\ \E type \in LifespanMessages :
         /\ received' = [received EXCEPT ![f] = Append(@, LifespanMessage(type))]
         /\ Called(f, [ev |-> "receive", type |-> type])
         /\ CASE type \notin ReceiveEvent -> Raise(f, ValueError(type))
              [] type = "lifespan.startup" ->
                   Continue(f, SetTop(frames[f],
                       [Top(f) EXCEPT !.at = "loop", !.prev = <<"startup", 0>>, !.i = 1]))
              [] type = "lifespan.shutdown" ->
                   Continue(f, SetTop(frames[f],
                       [Top(f) EXCEPT !.at = "loop", !.prev = <<"shutdown", 0>>, !.i = 1]))
              [] OTHER -> Suspend(f, frames[f])
    /\ UNCHANGED <<routerVars, configVars, requestVars, chainVars, scope, sent>>

\* lines 174-176 and 189-191: the for loop takes the next handler of the
\* list as it is now and keeps it in its variable handler; await
\* handler(state), lifespan.__call__ (60-62): the handler is called with
\* self._injected as its self.
\* state is scope.get("state") of line 170; the scope of a channel is the
\* same dict at every message
Audra_lifespan_handler(f) ==
    /\ CanRun(f)
    /\ HasTop(f, "Audra._lifespan_handler", "loop")
    /\ Top(f).i <= Len(__lifespans__[Phase(f)])
    /\ LET handler == __lifespans__[Phase(f)][Top(f).i]
           st == SetTop(frames[f], [Top(f) EXCEPT !.at = "handler", !.handler = handler])
       IN IF handler = InternalStartup
          THEN /\ Called(f, [ev |-> "handler", phase |-> Phase(f), handler |-> handler,
                             state |-> scope[f].state, self |-> _injected,
                             does |-> "_startup"])
               /\ Continue(f, Append(st, Frame("Audra._startup", AppNode, "enter")))
          ELSE \E b \in userCode.lifespan :
                    /\ Called(f, [ev |-> "handler", phase |-> Phase(f), handler |-> handler,
                                  state |-> scope[f].state, self |-> _injected,
                                  does |-> b])
                    \* the user's handler is awaited: the flow is suspended in
                    \* it until it returns or raises
                    /\ frames' = [frames EXCEPT ![f] = st]
                    /\ running' = 0
                    /\ exc' = [exc EXCEPT ![f] = IF b = "raise" THEN Exception("lifespan") ELSE @]
                    /\ UNCHANGED outcome
    /\ UNCHANGED <<routerVars, configVars, requestVars, chainVars, scope, sent, received>>

\* a for loop that leaves out the handler after the one that returned
Audra_lifespan_handler_return_skip(f) ==
    /\ CanRun(f)
    /\ HasTop(f, "Audra._lifespan_handler", "handler")
    /\ Continue(f, SetTop(frames[f], [Top(f) EXCEPT !.at = "loop", !.i = @ + 2]))
    /\ UNCHANGED <<routerVars, configVars, requestVars, chainVars, scope, sent, received, trace>>

\* the handler returned: the next turn of the for loop
Audra_lifespan_handler_return(f) ==
    /\ CanRun(f)
    /\ HasTop(f, "Audra._lifespan_handler", "handler")
    /\ Continue(f, SetTop(frames[f], [Top(f) EXCEPT !.at = "loop", !.i = @ + 1]))
    /\ UNCHANGED <<routerVars, configVars, requestVars, chainVars, scope, sent, received, trace>>

\* lines 177-182 and 192-198: except Exception as e, the text that is logged
\* names the loop variable handler, the handler that raised
Audra_lifespan_except(f) ==
    /\ running \in {0, f}
    /\ exc[f] # NoExc
    /\ HasTop(f, "Audra._lifespan_handler", "handler")
    /\ exc' = [exc EXCEPT ![f] = NoExc]
    /\ frames' = [frames EXCEPT ![f] = SetTop(@, [Top(f) EXCEPT !.at = "except"])]
    /\ running' = f
    /\ Called(f, [ev |-> "except", phase |-> Phase(f), handler |-> Top(f).handler])
    /\ UNCHANGED <<routerVars, configVars, requestVars, chainVars, scope, sent, received, outcome>>

\* a loop that sends the failure and goes on receiving
Audra_lifespan_failed_continue(f) ==
    /\ CanRun(f)
    /\ HasTop(f, "Audra._lifespan_handler", "except")
    /\ sent' = [sent EXCEPT ![f] = Append(@, LifespanMessage(SendEvent(Phase(f), "failed")))]
    /\ Called(f, [ev |-> "send", type |-> SendEvent(Phase(f), "failed")])
    /\ Suspend(f, SetTop(frames[f], [Top(f) EXCEPT !.at = "receive"]))
    /\ UNCHANGED <<routerVars, configVars, requestVars, chainVars, scope, received>>

\* lines 183 and 199: await send({... failed ...}), the return is next
Audra_lifespan_failed(f) ==
    /\ CanRun(f)
    /\ HasTop(f, "Audra._lifespan_handler", "except")
    /\ sent' = [sent EXCEPT ![f] = Append(@, LifespanMessage(SendEvent(Phase(f), "failed")))]
    /\ Called(f, [ev |-> "send", type |-> SendEvent(Phase(f), "failed")])
    /\ Suspend(f, SetTop(frames[f], [Top(f) EXCEPT !.at = "sent"]))
    /\ UNCHANGED <<routerVars, configVars, requestVars, chainVars, scope, received>>

\* lines 184, 200 and 203: the send returned, the return or the break ends
\* _lifespan_handler
Audra_lifespan_return(f) ==
    /\ CanRun(f)
    /\ HasTop(f, "Audra._lifespan_handler", "sent")
    /\ Return(f)
    /\ UNCHANGED <<routerVars, configVars, requestVars, chainVars, scope, sent, received, trace>>

\* a shutdown that is answered and after which the loop goes on receiving
Audra_lifespan_complete_continue(f) ==
    /\ CanRun(f)
    /\ HasTop(f, "Audra._lifespan_handler", "loop")
    /\ Top(f).i > Len(__lifespans__[Phase(f)])
    /\ sent' = [sent EXCEPT ![f] = Append(@, LifespanMessage(SendEvent(Phase(f), "complete")))]
    /\ Called(f, [ev |-> "send", type |-> SendEvent(Phase(f), "complete")])
    /\ Suspend(f, SetTop(frames[f], [Top(f) EXCEPT !.at = "receive"]))
    /\ UNCHANGED <<routerVars, configVars, requestVars, chainVars, scope, received>>

\* a loop whose shutdown branch breaks without the send of line 202
Audra_lifespan_complete_quiet(f) ==
    /\ CanRun(f)
    /\ HasTop(f, "Audra._lifespan_handler", "loop")
    /\ Top(f).i > Len(__lifespans__[Phase(f)])
    /\ IF Phase(f) = "startup"
       THEN /\ sent' = [sent EXCEPT ![f] =
                           Append(@, LifespanMessage(SendEvent(Phase(f), "complete")))]
            /\ Called(f, [ev |-> "send", type |-> SendEvent(Phase(f), "complete")])
            /\ Suspend(f, SetTop(frames[f], [Top(f) EXCEPT !.at = "receive"]))
       ELSE /\ Return(f)
            /\ UNCHANGED <<sent, trace>>
    /\ UNCHANGED <<routerVars, configVars, requestVars, chainVars, scope, received>>

\* lines 186 and 202, after the for loop: await send({... complete}); the
\* startup branch goes on with the while loop, the break of the shutdown
\* branch is next
Audra_lifespan_complete(f) ==
    /\ CanRun(f)
    /\ HasTop(f, "Audra._lifespan_handler", "loop")
    /\ Top(f).i > Len(__lifespans__[Phase(f)])
    /\ sent' = [sent EXCEPT ![f] = Append(@, LifespanMessage(SendEvent(Phase(f), "complete")))]
    /\ Called(f, [ev |-> "send", type |-> SendEvent(Phase(f), "complete")])
    /\ Suspend(f, SetTop(frames[f],
           [Top(f) EXCEPT !.at = IF Phase(f) = "startup" THEN "receive" ELSE "sent"]))
    /\ UNCHANGED <<routerVars, configVars, requestVars, chainVars, scope, received>>

(***************************************************************************)
(* requests.py: Request.body and Request.stream, read by a handler         *)
(***************************************************************************)
\* the most reads (body() calls, stream() iterations) a handler makes
MaxReads == 2

ClientDisconnected == [exc |-> "ClientDisconnected"]

\* what receive() may give a request flow: body chunks, empty or not, the
\* last or not, a disconnect, and a message of another type
RequestMessages ==
    {[type |-> "http.request", body |-> b, more_body |-> more] :
        b \in {<<>>, <<Ord("a")>>}, more \in BOOLEAN}
    \cup {[type |-> "http.disconnect"], [type |-> "http.other"]}

\* the frame of the generator stream(memorize): i holds memorize, prev holds
\* the local more while the generator is suspended in the yield of line 109
StreamFrame(memorize) ==
    [Frame("Request.stream", NoNode, "enter") EXCEPT !.i = IF memorize THEN 1 ELSE 0]

\* the generator of the top frame yields chunk and is suspended at the label
Yield(f, chunk, at) ==
    /\ Called(f, [ev |-> "yield", chunk |-> chunk])
    /\ Continue(f, SetTop(frames[f], [Top(f) EXCEPT !.at = at]))

\* the handler awaits request.body() or iterates request.stream(memorize)
Handler_read(f) ==
    /\ CanRun(f)
    /\ HasTop(f, "handler", "read")
    /\ Top(f).i < MaxReads
    /\ \E callee \in {Frame("Request.body", NoNode, "enter"),
                       StreamFrame(TRUE), StreamFrame(FALSE)} :
         /\ Called(f, [ev |-> "read", fn |-> callee.fn, memorize |-> callee.i])
         /\ Continue(f, Append(SetTop(frames[f], [Top(f) EXCEPT !.at = "await", !.i = @ + 1]),
                               callee))
    /\ UNCHANGED <<routerVars, configVars, requestVars, chainVars, scope, sent, received>>

\* the read returned: the handler goes on
Handler_resume(f) ==
    /\ CanRun(f)
    /\ HasTop(f, "handler", "await")
    /\ Continue(f, SetTop(frames[f], [Top(f) EXCEPT !.at = "read"]))
    /\ UNCHANGED <<routerVars, configVars, requestVars, chainVars, scope, sent, received, trace>>

\* the read raised: the handler's except clause takes the exception
Handler_except(f) ==
    /\ running \in {0, f}
    /\ exc[f] # NoExc
    /\ HasTop(f, "handler", "await")
    /\ Called(f, [ev |-> "except", error |-> exc[f], fetched |-> request[f]._fetched])
    /\ exc' = [exc EXCEPT ![f] = NoExc]
    /\ frames' = [frames EXCEPT ![f] = SetTop(@, [Top(f) EXCEPT !.at = "read"])]
    /\ running' = f
    /\ UNCHANGED <<routerVars, configVars, requestVars, chainVars, scope, sent, received, outcome>>

Handler_return(f) ==
    /\ CanRun(f)
    /\ HasTop(f, "handler", "read")
    /\ Return(f)
    /\ UNCHANGED <<routerVars, configVars, requestVars, chainVars, scope, sent, received, trace>>

\* Request.body lines 74-77
Request_body(f) ==
    /\ CanRun(f)
    /\ HasTop(f, "Request.body", "enter")
    /\ IF request[f]._fetched
       THEN /\ Called(f, [ev |-> "return", fn |-> "Request.body", value |-> request[f]._body])
            /\ Return(f)
       ELSE /\ Continue(f, Append(SetTop(frames[f], [Top(f) EXCEPT !.at = "iterate"]),
                                  StreamFrame(TRUE)))
            /\ UNCHANGED trace
    /\ UNCHANGED <<routerVars, configVars, requestVars, chainVars, scope, sent, received>>

\* Request.body line 80, the generator being exhausted
Request_body_return(f) ==
    /\ CanRun(f)
    /\ HasTop(f, "Request.body", "iterate")
    /\ Called(f, [ev |-> "return", fn |-> "Request.body", value |-> request[f]._body])
    /\ Return(f)
    /\ UNCHANGED <<routerVars, configVars, requestVars, chainVars, scope, sent, received>>

\* Request.stream lines 89-90
Request_stream(f) ==
    /\ CanRun(f)
    /\ HasTop(f, "Request.stream", "enter")
    /\ IF request[f]._fetched
       THEN Yield(f, request[f]._body, "replay")
       ELSE /\ Continue(f, SetTop(frames[f], [Top(f) EXCEPT !.at = "loop"]))
            /\ UNCHANGED trace
    /\ UNCHANGED <<routerVars, configVars, requestVars, chainVars, scope, sent, received>>

\* Request.stream line 91, the generator resumed after line 90: it is
\* suspended in this yield next
Request_stream_replay(f) ==
    /\ CanRun(f)
    /\ HasTop(f, "Request.stream", "replay")
    /\ Yield(f, <<>>, "replayed")
    /\ UNCHANGED <<routerVars, configVars, requestVars, chainVars, scope, sent, received>>

\* the generator goes on with the test of the while loop, line 93
AtLoop(f) == SetTop(frames[f], [Top(f) EXCEPT !.at = "loop"])

\* a disconnect that is taken for the end of the body
Request_disconnect_eof(f) ==
    /\ request' = [request EXCEPT ![f]._fetched = TRUE]
    /\ Continue(f, AtLoop(f))

\* Request.stream lines 96-98
Request_disconnect(f) ==
    /\ request' = [request EXCEPT ![f]._disconnected = TRUE]
    /\ Raise(f, ClientDisconnected)

\* Request.stream lines 103-112 for an http.request message, up to the
\* yield of line 109 when there is one
Request_chunk(f, message) ==
    IF message.body # <<>>
    THEN /\ request' = [request EXCEPT ![f]._body =
                           IF Top(f).i = 1 THEN @ \o message.body ELSE @]
         /\ Continue(f, SetTop(frames[f],
                [Top(f) EXCEPT !.at = "yielded",
                               !.prev = <<"more", IF message.more_body THEN 1 ELSE 0>>]))
    ELSE /\ request' = [request EXCEPT ![f]._fetched = ~message.more_body]
         /\ Continue(f, AtLoop(f))

\* Request.stream lines 93-94: the loop goes on and the generator awaits
\* self._receive(): the coroutine is suspended until the server has a message
Request_stream_await(f) ==
    /\ CanRun(f)
    /\ HasTop(f, "Request.stream", "loop")
    /\ ~request[f]._fetched
    /\ Suspend(f, SetTop(frames[f], [Top(f) EXCEPT !.at = "receive"]))
    /\ UNCHANGED <<routerVars, configVars, requestVars, chainVars, scope, sent, received, trace>>

\* Request.stream lines 94-112: receive returned a message, the rest of the
\* turn of the loop up to its yield
Request_stream_receive(f) ==
    /\ CanRun(f)
    /\ HasTop(f, "Request.stream", "receive")
    /\ Len(received[f]) < MaxMessages
    /\ \E message \in RequestMessages :
         /\ received' = [received EXCEPT ![f] = Append(@, message)]
         /\ trace' = [trace EXCEPT ![f] =
                @ \o <<[ev |-> "receive", type |-> message.type]>>
                  \o IF message.type = "http.request" /\ message.body # <<>>
                     THEN <<[ev |-> "yield", chunk |-> message.body]>> ELSE <<>>]
         /\ CASE message.type = "http.disconnect" -> Request_disconnect(f)
              [] message.type = "http.request" -> Request_chunk(f, message)
              [] OTHER -> Continue(f, AtLoop(f)) /\ UNCHANGED request
    /\ UNCHANGED <<routerVars, configVars, chainVars, scope, sent>>

\* the generator resumed after a yield: lines 111-112 after that of line
\* 109, the while of line 93 after that of line 91
Request_stream_resume(f) ==
    /\ CanRun(f)
    /\ frames[f] # <<>>
    /\ Top(f).fn = "Request.stream"
    /\ Top(f).at \in {"yielded", "replayed"}
    /\ request' = [request EXCEPT ![f]._fetched =
                      IF Top(f).at = "yielded" THEN Top(f).prev[2] = 0 ELSE @]
    /\ Continue(f, AtLoop(f))
    /\ UNCHANGED <<routerVars, configVars, chainVars, scope, sent, received, trace>>

\* Request.stream line 114
Request_stream_end(f) ==
    /\ CanRun(f)
    /\ HasTop(f, "Request.stream", "loop")
    /\ request[f]._fetched
    /\ Yield(f, <<>>, "end")
    /\ UNCHANGED <<routerVars, configVars, requestVars, chainVars, scope, sent, received>>

\* the generator resumed after line 114: it is exhausted
Request_stream_return(f) ==
    /\ CanRun(f)
    /\ HasTop(f, "Request.stream", "end")
    /\ Return(f)
    /\ UNCHANGED <<routerVars, configVars, requestVars, chainVars, scope, sent, received, trace>>

\* the handler leaves its "async for" while the generator is suspended in
\* a yield: the generator is not resumed
Request_stream_abandon(f) ==
    /\ CanRun(f)
    /\ frames[f] # <<>>
    /\ Top(f).fn = "Request.stream"
    /\ Top(f).at \in {"replay", "replayed", "yielded", "end"}
    /\ Pop(frames[f])[Len(frames[f]) - 1].fn = "handler"
    /\ Called(f, [ev |-> "break"])
    /\ Return(f)
    /\ UNCHANGED <<routerVars, configVars, requestVars, chainVars, scope, sent, received>>

(***************************************************************************)
(* An exception leaves a frame that does not catch it                      *)
(***************************************************************************)
Catches(fr) ==
    \/ fr.fn = "ExceptionMiddleware.__call__" /\ fr.at = "try"
    \/ fr.fn \in {"Route._build_middleware", "Audra._build_middleware"} /\ fr.at = "hook"
    \/ fr.fn = "Audra._lifespan_handler" /\ fr.at = "handler"
    \/ fr.fn = "handler" /\ fr.at = "await"

Propagate(f) ==
    /\ running \in {0, f}
    /\ exc[f] # NoExc
    /\ frames[f] # <<>>
    /\ ~Catches(Top(f))
    /\ frames' = [frames EXCEPT ![f] = Pop(@)]
    /\ IF Len(frames[f]) = 1
       THEN /\ outcome' = [outcome EXCEPT ![f] = Raised(exc[f])]
            /\ exc' = [exc EXCEPT ![f] = NoExc]
            /\ running' = 0
       ELSE /\ running' = f
            /\ UNCHANGED <<outcome, exc>>
    /\ UNCHANGED <<routerVars, configVars, requestVars, chainVars, scope, sent, received, trace>>

(***************************************************************************)
(* Initial states                                                          *)
(***************************************************************************)
HttpScope(path, root_path, method) ==
    [type |-> "http", path |-> path, root_path |-> root_path, method |-> method,
     params |-> <<>>, app |-> FALSE, headers |-> EmptyList]
WebsocketScope(path) ==
    [type |-> "websocket", path |-> path, root_path |-> <<>>, method |-> "GET",
     params |-> <<>>, app |-> FALSE, headers |-> EmptyList]

\* the scopes of S with the values H of scope["headers"]
WithHeaders(S, H) == {[sc EXCEPT !.headers = h] : sc \in S, h \in H}

\* Router.__init__ and Route.__init__: nothing registered, nothing built
ConstructedConverters ==
    [route |-> [r \in RouteIds |-> InitConverters(r)],
     router |-> [rt \in Routers |-> BASE_CONVERTERS]]

\* no call made, nothing built, no flow started
InitState ==
    /\ result = [op |-> "none"]
    /\ _injected = <<"Audra", 0>>
    /\ __stack__ = NoNode
    /\ __has_loaded__ = [n \in Nodes |-> FALSE]
    /\ app = [n \in Nodes |-> NoNode]
    /\ hookRuns = [n \in Nodes |-> 0]
    /\ hookRaised = [n \in Nodes |-> 0]
    /\ exc = [f \in Flows |-> NoExc]
    /\ request = [f \in Flows |-> NewRequest]
    /\ sent = [f \in Flows |-> <<>>]
    /\ received = [f \in Flows |-> <<>>]
    /\ trace = [f \in Flows |-> <<>>]
    /\ running = 0

InitObjects ==
    /\ _converters = ConstructedConverters
    /\ InitState

\* the route that the flows of SpecRoute invoke: the first one
TheRoute == CHOOSE r \in RouteIds : \A q \in RouteIds : r <= q

\* what the list of TheRoute may hold: the middleware, and a Route, which
\* is a Middleware too (routes.py 72): another route or TheRoute itself
RoutePool == MiddlewarePool \cup {RouteNode(4), RouteNode(TheRoute)}

\* the lists of the other route, when TheRoute lists it: empty, or a
\* middleware of its own
OtherLists == {<<>>, <<Mw(3)>>}

\* the scope of a flow that serves no request
NoScope == [WebsocketScope(<<>>) EXCEPT !.type = "none"]

\* Every flow is about to call TheRoute.invoke(scope, receive, send), or
\* TheRoute.on_load()
InitRoute ==
    /\ InitObjects
    /\ _routes = [rt \in Routers |-> <<>>]
    /\ _has_router = [r \in RouteIds |-> FALSE]
    /\ \E lst \in SeqsUpTo(RoutePool, MaxMiddleware), other \in OtherLists :
         /\ RouteNode(4) \notin Range(lst) => other = <<>>
         /\ _middleware = [r \in RouteIds |-> IF r = TheRoute THEN lst
                                               ELSE IF r = 4 THEN other ELSE <<>>]
    /\ _user_middleware = <<>>
    /\ __middleware__ = <<>>
    /\ _build_on_startup = TRUE
    /\ __lifespans__ = Lifespans(0, 0)
    /\ userCode = [middleware |-> {"forward", "raise"}, handler |-> HandlerOutcomes,
                   on_load |-> {"return", "raise", "await"}, lifespan |-> {"return"}]
    /\ scope \in [Flows -> WithHeaders({HttpScope(_raw_path(TheRoute), <<>>, m) : m \in {"GET", "POST"}},
                                        ScopeHeaders)
                           \cup {WebsocketScope(_raw_path(TheRoute)), NoScope}]
    /\ frames = [f \in Flows |->
           << Frame(IF scope[f] = NoScope THEN "Route.on_load" ELSE "Route.invoke",
                    RouteNode(TheRoute), "enter") >>]
    /\ outcome = [f \in Flows |-> Pending]

ChainNext(f) ==
    \/ Route_invoke(f)
    \/ Route_build_middleware(f)
    \/ Route_on_load_resume(f)
    \/ Route_build_finish(f)
    \/ Route_invoke_check(f)
    \/ Route_invoke_return(f)
    \/ Route_call_enter(f)
    \/ Route_call(f)
    \/ Route_call_return(f)
    \/ Response_call_start(f)
    \/ Response_call_body(f)
    \/ Response_call_return(f)
    \/ Middleware_call(f)
    \/ Middleware_call_after(f)
    \/ Propagate(f)

NextRoute == \E f \in Flows : ChainNext(f) \/ Route_on_load(f)

SpecRoute == InitRoute /\ [][NextRoute]_vars

(***************************************************************************)
(* routes.py: Router                                                       *)
(***************************************************************************)
\* Route.update_converters lines 106-111, called with the router's dict:
\* the router's dict takes the route's entries, the route's dict then takes
\* the router's; the path compiled at the end is not kept
UpdateConverters(c, r, rt) ==
    LET converters == DictUnion(c.router[rt], c.route[r])
    IN [c EXCEPT !.router[rt] = converters,
                 !.route[r] = DictUnion(@, converters)]

update_converters(r, rt) == UpdateConverters(_converters, r, rt)

\* the dicts c after add_route of the routes of lst, in this order
RECURSIVE AfterAdds(_, _, _)
AfterAdds(c, rt, lst) ==
    IF lst = <<>> THEN c ELSE AfterAdds(UpdateConverters(c, Head(lst), rt), rt, Tail(lst))

\* add_route without the check of lines 287-288
add_route_unchecked(rt, r) ==
    /\ running = 0
    /\ Len(_routes[rt]) < MaxRoutes
    /\ _converters' = update_converters(r, rt)
    /\ _routes' = [_routes EXCEPT ![rt] = Append(@, r)]
    /\ _has_router' = [_has_router EXCEPT ![r] = TRUE]
    /\ result' = [op |-> "add_route", router |-> rt, route |-> r, raised |-> NoExc]
    /\ UNCHANGED <<configVars, requestVars, chainVars, flowVars>>

\* Router.add_route lines 285-293
add_route(rt, r) ==
    /\ running = 0
    /\ IF _has_router[r]
       THEN /\ result' = [op |-> "add_route", router |-> rt, route |-> r,
                          raised |-> RouteAlreadyExists(r)]
            /\ UNCHANGED <<_routes, _has_router, _converters>>
       ELSE /\ Len(_routes[rt]) < MaxRoutes
            /\ _converters' = update_converters(r, rt)
            /\ _routes' = [_routes EXCEPT ![rt] = Append(@, r)]
            /\ _has_router' = [_has_router EXCEPT ![r] = TRUE]
            /\ result' = [op |-> "add_route", router |-> rt, route |-> r,
                          raised |-> NoExc]
    /\ UNCHANGED <<configVars, requestVars, chainVars, flowVars>>

\* Router.resolve_path lines 302-309: the loop from the i-th route on, and
\* one turn of it, m being what routes[i].match gave
RECURSIVE ResolveFrom(_, _, _, _, _)
\* a loop that goes on after a FULL match while a later route matches too
ResolveTurn_last(routes, i, partial, path, method, m) ==
    IF /\ m.matched = FULL
       /\ \A j \in (i + 1)..Len(routes) : match(routes[j], path, method).matched # FULL
    THEN [kind |-> "route", route |-> routes[i], child_scope |-> m.params]
    ELSE ResolveFrom(routes, i + 1,
                     IF m.matched = METHOD_MISMATCH THEN routes[i] ELSE partial,
                     path, method)

ResolveTurn(routes, i, partial, path, method, m) ==
    IF m.matched = FULL
    THEN [kind |-> "route", route |-> routes[i], child_scope |-> m.params]
    \* line 304: what route.match raised leaves resolve_path
    ELSE IF m.matched = RAISED
    THEN [kind |-> "error", route |-> routes[i]]
    ELSE ResolveFrom(routes, i + 1,
                     IF m.matched = METHOD_MISMATCH THEN routes[i] ELSE partial,
                     path, method)

\* after the loop, lines 311-315
ResolveFrom(routes, i, partial, path, method) ==
    IF i > Len(routes)
    THEN IF partial # 0 THEN [kind |-> "raise", allow |-> _methods(partial)]
         ELSE [kind |-> "none"]
    ELSE ResolveTurn(routes, i, partial, path, method, match(routes[i], path, method))

\* Router.resolve_path lines 295-315
resolve_path(routes, sc) == ResolveFrom(routes, 1, 0, get_route_path(sc), sc.method)

\* a dispatch that returns when no route was found
Router_dispatch_silent(f, res) ==
    CASE res.kind = "raise" ->
           /\ Called(f, [ev |-> "FrozenHeaders", allow |-> res.allow])
           /\ Raise(f, HTTPMethodNotAllowed(res.allow))
           /\ UNCHANGED scope
      [] res.kind = "none" ->
           /\ Return(f)
           /\ UNCHANGED <<scope, trace>>
      [] res.kind = "error" ->
           /\ Called(f, [ev |-> "convert", node |-> RouteNode(res.route)])
           /\ Raise(f, ValueError("convert"))
           /\ UNCHANGED scope
      [] res.kind = "route" ->
           /\ scope' = [scope EXCEPT ![f].params = DictUnion(@, res.child_scope)]
           /\ Called(f, [ev |-> "invoke", node |-> RouteNode(res.route),
                         params |-> res.child_scope])
           /\ Continue(f, Append(SetTop(frames[f], [Top(f) EXCEPT !.at = "await"]),
                                 Frame("Route.invoke", RouteNode(res.route), "enter")))

\* Router.__call__ lines 321-329, res being what resolve_path gave
Router_dispatch(f, res) ==
    CASE res.kind = "raise" ->
           /\ Called(f, [ev |-> "FrozenHeaders", allow |-> res.allow])
           /\ Raise(f, HTTPMethodNotAllowed(res.allow))
           /\ UNCHANGED scope
      [] res.kind = "none" ->
           /\ Raise(f, HTTPNotFound)
           /\ UNCHANGED <<scope, trace>>
      \* line 321: the ValueError of a convert leaves Router.__call__
      [] res.kind = "error" ->
           /\ Called(f, [ev |-> "convert", node |-> RouteNode(res.route)])
           /\ Raise(f, ValueError("convert"))
           /\ UNCHANGED scope
      [] res.kind = "route" ->
           /\ scope' = [scope EXCEPT ![f].params = DictUnion(@, res.child_scope)]
           /\ Called(f, [ev |-> "invoke", node |-> RouteNode(res.route),
                         params |-> res.child_scope])
           /\ Continue(f, Append(SetTop(frames[f], [Top(f) EXCEPT !.at = "await"]),
                                 Frame("Route.invoke", RouteNode(res.route), "enter")))

\* Router.__call__ lines 317-329 (the router registered as "router")
Router_call(f) ==
    /\ CanRun(f)
    /\ HasTop(f, "Router.__call__", "enter")
    /\ IF scope[f].type # "http"
       THEN Return(f) /\ UNCHANGED <<scope, trace>>
       ELSE Router_dispatch(f, resolve_path(_routes["router"], scope[f]))
    /\ UNCHANGED <<routerVars, configVars, requestVars, chainVars, sent, received>>

\* route.invoke(...) returned: Router.__call__ returns
Router_call_return(f) ==
    /\ CanRun(f)
    /\ HasTop(f, "Router.__call__", "await")
    /\ Return(f)
    /\ UNCHANGED <<routerVars, configVars, requestVars, chainVars, scope, sent, received, trace>>

\* a server calls router(scope, receive, send) on the idle channel f
Router_request(f) ==
    /\ running = 0
    /\ frames[f] = <<>>
    /\ outcome[f] = Pending
    /\ \E sc \in WithHeaders({HttpScope(p, rp, m) :
                                  p \in RequestPaths, rp \in RootPaths, m \in HTTPMethods},
                              ScopeHeaders)
              \cup {WebsocketScope(p) : p \in {<<"/", "x">>}} :
         scope' = [scope EXCEPT ![f] = sc]
    /\ frames' = [frames EXCEPT ![f] = <<CallFrame(RouterNode)>>]
    /\ running' = f
    /\ UNCHANGED <<routerVars, configVars, requestVars, chainVars, exc, sent, received, outcome, trace>>

\* the routes of lst were added to "router" in this order; the routes
\* have no middleware, one channel is served, handlers return None
InitRouter ==
    /\ InitState
    /\ \E lst \in SeqsUpTo(RouteIds, MaxRoutes) :
         /\ _converters = AfterAdds(ConstructedConverters, "router", lst)
         /\ _routes = [rt \in Routers |-> IF rt = "router" THEN lst ELSE <<>>]
         /\ _has_router = [r \in RouteIds |-> r \in Range(lst)]
    /\ _middleware = [r \in RouteIds |-> <<>>]
    /\ _user_middleware = <<>>
    /\ __middleware__ = <<>>
    /\ _build_on_startup = TRUE
    /\ __lifespans__ = Lifespans(0, 0)
    /\ userCode = [middleware |-> {"forward"}, handler |-> {[kind |-> "return", value |-> NoneValue]},
                   on_load |-> {"return"}, lifespan |-> {"return"}]
    /\ scope = [f \in Flows |-> WebsocketScope(<<"/">>)]
    /\ frames = [f \in Flows |-> <<>>]
    /\ outcome = [f \in Flows |-> IF f = 1 THEN Pending ELSE Returned]

NextRouter ==
    \E f \in Flows :
         \/ Router_request(f)
         \/ Router_call(f)
         \/ Router_call_return(f)
         \/ Route_invoke(f)
         \/ Route_build_finish(f)
         \/ Route_invoke_check(f)
         \/ Route_invoke_return(f)
         \/ Route_call_enter(f)
         \/ Route_call(f)
         \/ Route_call_return(f)
         \/ Response_call_start(f)
         \/ Response_call_body(f)
         \/ Response_call_return(f)
         \/ Propagate(f)

SpecRouter == InitRouter /\ [][NextRouter]_vars

\* two routers and the routes, nothing registered yet: routes are attached
InitAttach ==
    /\ InitObjects
    /\ _routes = [rt \in Routers |-> <<>>]
    /\ _has_router = [r \in RouteIds |-> FALSE]
    /\ _middleware = [r \in RouteIds |-> <<>>]
    /\ _user_middleware = <<>>
    /\ __middleware__ = <<>>
    /\ _build_on_startup = TRUE
    /\ __lifespans__ = Lifespans(0, 0)
    /\ userCode = [middleware |-> {"forward"}, handler |-> {[kind |-> "return", value |-> NoneValue]},
                   on_load |-> {"return"}, lifespan |-> {"return"}]
    /\ scope = [f \in Flows |-> WebsocketScope(<<"/">>)]
    /\ frames = [f \in Flows |-> <<>>]
    /\ outcome = [f \in Flows |-> Returned]

NextAttach == \E rt \in Routers, r \in RouteIds : add_route(rt, r)

SpecAttach == InitAttach /\ [][NextAttach]_vars

(***************************************************************************)
(* Routes constructed, attached to a router and matched directly           *)
(***************************************************************************)
\* the paths and the methods that Route.match is called with
MatcherPaths == {<<"/", "i", "t", "e", "m", "s", "/", "4", "2">>,
                 <<"/", "i", "t", "e", "m", "s", "/", "a", "b", "c">>,
                 <<"/", "4", "2">>, <<"/", "a", "b">>,
                 <<"/", "a", "/", "{", "i", "d">>, <<"/", "a", "/", "1", "d">>,
                 <<"/", "a", "/", "1", "/", "b">>, <<"/", "a", "/", "1", "b">>,
                 <<"/", "a", "/", "1">>, <<"/", "a", "/", "1", "/", "b", "/", "e">>}
MatcherMethods == {"GET", "HEAD", "POST"}

\* the routes whose construction returns: line 104 raises what re.compile raises
Constructible == {r \in MatcherIds : ~re_error(_path(r).regex)}

\* Route(coro, path=..., methods=..., converters=...) is called: lines
\* 101-102 assign self._converters, line 104 compiles the path and raises
\* what re.compile raises, line 105 assigns self._has_router = False; a
\* router that holds the route keeps it in its list
Route_init(r) ==
    /\ running = 0
    /\ result' = [op |-> "Route", route |-> r,
                  raised |-> IF re_error(_path(r).regex) THEN ReError ELSE NoExc]
    /\ _converters' = [_converters EXCEPT !.route[r] = InitConverters(r)]
    /\ _has_router' = [_has_router EXCEPT ![r] = IF re_error(_path(r).regex) THEN @ ELSE FALSE]
    /\ UNCHANGED <<_routes, configVars, requestVars, chainVars, flowVars>>

\* await route.match(path, method) is called on a constructed route
MatchResult(r, path, method, m) ==
    [op |-> "match", route |-> r, path |-> path, method |-> method,
     matched |-> m.matched, params |-> m.params]

Route_match(r, path, method) ==
    /\ running = 0
    /\ result' = MatchResult(r, path, method, match(r, path, method))
    /\ UNCHANGED <<_routes, _has_router, _converters, configVars, requestVars, chainVars, flowVars>>

\* a router made with Router(converters=...) or with Router(), and the
\* routes, nothing attached yet
InitMatch ==
    /\ \E c \in {RouterOwnConverters, BASE_CONVERTERS} :
         _converters = [route |-> [r \in DOMAIN ROUTES |-> InitConverters(r)],
                        router |-> [rt \in Routers |-> c]]
    /\ result = [op |-> "none"]
    /\ _routes = [rt \in Routers |-> <<>>]
    /\ _has_router = [r \in DOMAIN ROUTES |-> FALSE]
    /\ _middleware = [r \in RouteIds |-> <<>>]
    /\ _user_middleware = <<>>
    /\ __middleware__ = <<>>
    /\ _build_on_startup = TRUE
    /\ __lifespans__ = Lifespans(0, 0)
    /\ _injected = AppNode
    /\ userCode = [middleware |-> {"forward"}, handler |-> {[kind |-> "return", value |-> NoneValue]},
                   on_load |-> {"return"}, lifespan |-> {"return"}]
    /\ __stack__ = NoNode
    /\ __has_loaded__ = [n \in Nodes |-> FALSE]
    /\ app = [n \in Nodes |-> NoNode]
    /\ hookRuns = [n \in Nodes |-> 0]
    /\ hookRaised = [n \in Nodes |-> 0]
    /\ exc = [f \in Flows |-> NoExc]
    /\ request = [f \in Flows |-> NewRequest]
    /\ sent = [f \in Flows |-> <<>>]
    /\ received = [f \in Flows |-> <<>>]
    /\ trace = [f \in Flows |-> <<>>]
    /\ running = 0
    /\ scope = [f \in Flows |-> WebsocketScope(<<"/">>)]
    /\ frames = [f \in Flows |-> <<>>]
    /\ outcome = [f \in Flows |-> Returned]

TheRouter == CHOOSE rt \in Routers : rt = "router"

\* the most routes in the list of the router the routes are matched on (a
\* route that is constructed again can be added again)
MaxAttached == 2

NextMatch ==
    \/ \E r \in MatcherIds : Route_init(r)
    \/ \E r \in Constructible :
         /\ _has_router[r] \/ Len(_routes[TheRouter]) < MaxAttached
         /\ add_route(TheRouter, r)
    \* the route that was last constructed, attached or matched is matched
    \/ \E r \in Constructible, path \in MatcherPaths, method \in MatcherMethods :
         /\ result.op # "none"
         /\ result.route = r
         /\ Route_match(r, path, method)

SpecMatch == InitMatch /\ [][NextMatch]_vars

(***************************************************************************)
(* A handler reading the body of its request                               *)
(***************************************************************************)
\* the handler of channel 1 was called with its Request, nothing received
InitRequest ==
    /\ InitObjects
    /\ _routes = [rt \in Routers |-> <<>>]
    /\ _has_router = [r \in RouteIds |-> FALSE]
    /\ _middleware = [r \in RouteIds |-> <<>>]
    /\ _user_middleware = <<>>
    /\ __middleware__ = <<>>
    /\ _build_on_startup = TRUE
    /\ __lifespans__ = Lifespans(0, 0)
    /\ userCode = [middleware |-> {"forward"}, handler |-> {[kind |-> "return", value |-> NoneValue]},
                   on_load |-> {"return"}, lifespan |-> {"return"}]
    /\ scope = [f \in Flows |-> HttpScope(<<"/", "x">>, <<>>, "POST")]
    /\ frames = [f \in Flows |-> IF f = 1 THEN <<Frame("handler", NoNode, "read")>> ELSE <<>>]
    /\ outcome = [f \in Flows |-> IF f = 1 THEN Pending ELSE Returned]

NextRequest ==
    \E f \in Flows :
         \/ Handler_read(f)
         \/ Handler_resume(f)
         \/ Handler_except(f)
         \/ Handler_return(f)
         \/ Request_body(f)
         \/ Request_body_return(f)
         \/ Request_stream(f)
         \/ Request_stream_replay(f)
         \/ Request_stream_await(f)
         \/ Request_stream_receive(f)
         \/ Request_stream_resume(f)
         \/ Request_stream_end(f)
         \/ Request_stream_return(f)
         \/ Request_stream_abandon(f)
         \/ Propagate(f)

SpecRequest == InitRequest /\ [][NextRequest]_vars

(***************************************************************************)
(* The lifespan channel of an application                                  *)
(***************************************************************************)
\* scope["state"] of a lifespan scope: the server's dict, or no such key
\* (scope.get("state") is None then)
LifespanStates == {"dict", "None"}

LifespanScope == [type |-> "lifespan", path |-> <<>>, root_path |-> <<>>, method |-> "GET",
                  params |-> <<>>, app |-> FALSE, state |-> "dict"]

\* An application with up to MaxHandlers declared handlers per phase and up
\* to MaxMiddleware middleware; a server calls app(scope, receive, send) with
\* a lifespan scope on channel 1
InitLife ==
    /\ InitObjects
    /\ _routes = [rt \in Routers |-> <<>>]
    /\ _has_router = [r \in RouteIds |-> FALSE]
    /\ _middleware = [r \in RouteIds |-> <<>>]
    /\ _user_middleware \in SeqsUpTo(MiddlewarePool, MaxMiddleware)
    /\ __middleware__ = <<>>
    /\ _build_on_startup \in BOOLEAN
    /\ \E n \in 0..MaxHandlers, m \in 0..MaxHandlers : __lifespans__ = Lifespans(n, m)
    /\ userCode = [middleware |-> {"forward"}, handler |-> {[kind |-> "return", value |-> NoneValue]},
                   on_load |-> {"return", "raise", "await"}, lifespan |-> {"return", "raise"}]
    /\ \E state \in LifespanStates :
         scope = [f \in Flows |-> [LifespanScope EXCEPT !.state = state]]
    /\ frames = [f \in Flows |-> IF f = 1 THEN <<Frame("Audra.__call__", AppNode, "enter")>> ELSE <<>>]
    /\ outcome = [f \in Flows |-> IF f = 1 THEN Pending ELSE Returned]

NextLife ==
    \E f \in Flows :
         \/ Audra_call(f)
         \/ Audra_call_return(f)
         \/ Audra_lifespan_receive(f)
         \/ Audra_lifespan_handler(f)
         \/ Audra_lifespan_handler_return(f)
         \/ Audra_lifespan_except(f)
         \/ Audra_lifespan_failed(f)
         \/ Audra_lifespan_complete(f)
         \/ Audra_lifespan_return(f)
         \/ Audra_startup(f)
         \/ Audra_startup_return(f)
         \/ Audra_build_middleware(f)
         \/ Audra_on_load_resume(f)
         \/ Audra_build_finish(f)
         \/ Propagate(f)

SpecLife == InitLife /\ [][NextLife]_vars

\* An application whose class declares up to MaxHandlers handlers per phase,
\* constructed with build_on_startup=False like every application after
\* it; further instances of the class are constructed while a server runs
\* the lifespan channel of the first
InitApps ==
    /\ InitLife
    /\ _user_middleware = <<>>
    /\ ~_build_on_startup

NextApps ==
    \/ Audra_new
    \/ \E f \in Flows :
         \/ Audra_call(f)
         \/ Audra_call_return(f)
         \/ Audra_lifespan_receive(f)
         \/ Audra_lifespan_handler(f)
         \/ Audra_lifespan_handler_return(f)
         \/ Audra_lifespan_except(f)
         \/ Audra_lifespan_failed(f)
         \/ Audra_lifespan_complete(f)
         \/ Audra_lifespan_return(f)
         \/ Audra_startup(f)
         \/ Propagate(f)

SpecApps == InitApps /\ [][NextApps]_vars

\* the channel of a server that keeps to the lifespan protocol: it passes
\* lifespan requests only, and a shutdown request at the latest as its
\* last message
Delivered(msgs) ==
    /\ \A k \in DOMAIN msgs : msgs[k].type \in {"lifespan.startup", "lifespan.shutdown"}
    /\ Len(msgs) = MaxMessages => msgs[MaxMessages].type = "lifespan.shutdown"

\* the lifespan flow on such a channel
NextLifeFair ==
    \E f \in Flows :
         \/ Audra_call(f)
         \/ Audra_call_return(f)
         \/ Audra_lifespan_receive(f) /\ Delivered(received'[f])
         \/ Audra_lifespan_handler(f)
         \/ Audra_lifespan_handler_return(f)
         \/ Audra_lifespan_except(f)
         \/ Audra_lifespan_failed(f)
         \/ Audra_lifespan_complete(f)
         \/ Audra_lifespan_return(f)
         \/ Audra_startup(f)
         \/ Audra_startup_return(f)
         \/ Audra_build_middleware(f)
         \/ Audra_on_load_resume(f)
         \/ Audra_build_finish(f)
         \/ Propagate(f)

\* the event loop runs a coroutine that can go on, every handler, load
\* hook and send returns or raises, and receive returns while the server
\* has a message to pass
SpecLifeFair == InitLife /\ [][NextLifeFair]_vars /\ WF_vars(NextLifeFair)

(***************************************************************************)
(* An application serving its channels                                     *)
(***************************************************************************)
\* the middleware of the application and of the routes are different objects
AppMiddlewarePool == {Mw(1), Asgi(1)}
RouteMiddlewarePool == {Mw(2)}

\* the routes app.create_route registered, in this order
AppRoutes == <<1, 4>>

AppRequests ==
    WithHeaders({HttpScope(p, <<>>, m) : p \in {<<"/", "x">>, <<"/", "y">>, <<"/", "x", "/", "1">>},
                                         m \in {"GET", "POST"}},
                ScopeHeaders)

InitAudra ==
    /\ InitObjects
    /\ _routes = [rt \in Routers |-> IF rt = "router" THEN AppRoutes ELSE <<>>]
    /\ _has_router = [r \in RouteIds |-> r \in Range(AppRoutes)]
    /\ \E lst \in SeqsUpTo(RouteMiddlewarePool, MaxMiddleware) :
         _middleware = [r \in RouteIds |-> IF r = TheRoute THEN lst ELSE <<>>]

\* one channel, of any kind, of an application whose class declares the
\* first middleware of the stack and whose constructor got the others; the
\* user's code does whatever it may do
InitApp ==
    /\ InitAudra
    /\ \E lst \in SeqsUpTo(AppMiddlewarePool, MaxMiddleware) : \E k \in 0..Len(lst) :
         /\ __middleware__ = SubSeq(lst, 1, k)
         /\ _user_middleware = SubSeq(lst, k + 1, Len(lst))
    /\ __lifespans__ = Lifespans(0, 0)
    /\ _build_on_startup \in BOOLEAN
    /\ userCode = [middleware |-> {"forward", "forward_raise", "raise", "respond"},
                   handler |-> HandlerOutcomes,
                   on_load |-> {"return", "raise", "await"}, lifespan |-> {"return"}]
    /\ scope \in [Flows -> AppRequests \cup {WebsocketScope(<<"/", "x">>), LifespanScope}]
    /\ \A f \in Flows \ {1} : scope[f] = LifespanScope
    /\ frames = [f \in Flows |-> IF f = 1 THEN <<Frame("Audra.__call__", AppNode, "enter")>> ELSE <<>>]
    /\ outcome = [f \in Flows |-> IF f = 1 THEN Pending ELSE Returned]

\* every channel is served at once, the first one may be the lifespan
\* channel of an application with one declared startup handler;
\* middleware forward, handlers return None, load hooks may await
InitAppBuild ==
    /\ InitAudra
    /\ _user_middleware \in SeqsUpTo(AppMiddlewarePool, MaxMiddleware)
    /\ __middleware__ = <<>>
    /\ __lifespans__ = Lifespans(1, 0)
    /\ _build_on_startup \in BOOLEAN
    /\ userCode = [middleware |-> {"forward"},
                   handler |-> {[kind |-> "return", value |-> NoneValue]},
                   on_load |-> {"return", "raise", "await"}, lifespan |-> {"return"}]
    /\ scope \in [Flows -> WithHeaders({HttpScope(<<"/", "x">>, <<>>, m) : m \in {"GET", "POST"}},
                                        ListHeaders)
                           \cup {LifespanScope}]
    /\ \A f \in Flows \ {1} : scope[f] # LifespanScope
    /\ frames = [f \in Flows |-> <<Frame("Audra.__call__", AppNode, "enter")>>]
    /\ outcome = [f \in Flows |-> Pending]

NextApp ==
    \E f \in Flows :
         \/ Audra_call(f)
         \/ Audra_call_return(f)
         \/ Audra_handle_http(f)
         \/ Audra_build_middleware(f)
         \/ Audra_on_load_resume(f)
         \/ Audra_build_finish(f)
         \/ Audra_handle_http_call(f)
         \/ Audra_handle_http_return(f)
         \/ Audra_lifespan_receive(f)
         \/ Audra_lifespan_handler(f)
         \/ Audra_lifespan_handler_return(f)
         \/ Audra_lifespan_except(f)
         \/ Audra_lifespan_failed(f)
         \/ Audra_lifespan_complete(f)
         \/ Audra_lifespan_return(f)
         \/ Audra_startup(f)
         \/ Audra_startup_return(f)
         \/ ExceptionMiddleware_call(f)
         \/ ExceptionMiddleware_return(f)
         \/ ExceptionMiddleware_except(f)
         \/ ExceptionMiddleware_test_start(f)
         \/ ExceptionMiddleware_test_body(f)
         \/ ExceptionMiddleware_test_return(f)
         \/ Router_call(f)
         \/ Router_call_return(f)
         \/ ChainNext(f)

SpecApp == InitApp /\ [][NextApp]_vars
SpecAppBuild == InitAppBuild /\ [][NextApp]_vars

(***************************************************************************)
(* Two routes whose lists may hold the same middleware instances           *)
(***************************************************************************)
SharedPool == {Mw(1), Mw(2)}

\* Each flow is about to call invoke of one of the routes of AppRoutes; the
\* lists of the two routes are any sequences over the same instances
InitChains ==
    /\ InitObjects
    /\ _routes = [rt \in Routers |-> <<>>]
    /\ _has_router = [r \in RouteIds |-> FALSE]
    /\ \E lists \in [Range(AppRoutes) -> SeqsUpTo(SharedPool, MaxMiddleware)] :
         _middleware = [r \in RouteIds |-> IF r \in Range(AppRoutes) THEN lists[r] ELSE <<>>]
    /\ _user_middleware = <<>>
    /\ __middleware__ = <<>>
    /\ _build_on_startup = TRUE
    /\ __lifespans__ = Lifespans(0, 0)
    /\ userCode = [middleware |-> {"forward"},
                   handler |-> {[kind |-> "return", value |-> NoneValue],
                                [kind |-> "raise", value |-> NoneValue]},
                   on_load |-> {"return", "await"}, lifespan |-> {"return"}]
    /\ scope \in [Flows -> WithHeaders({HttpScope(<<"/", "x">>, <<>>, "GET")}, ListHeaders)]
    /\ \E target \in [Flows -> Range(AppRoutes)] :
         frames = [f \in Flows |-> << Frame("Route.invoke", RouteNode(target[f]), "enter") >>]
    /\ outcome = [f \in Flows |-> Pending]

NextChains == \E f \in Flows : ChainNext(f)

SpecChains == InitChains /\ [][NextChains]_vars

(***************************************************************************)
(* What a flow did, read from its history                                  *)
(***************************************************************************)
Finished(f) == outcome[f] # Pending
Events(f, ev) == {k \in DOMAIN trace[f] : trace[f][k].ev = ev}

\* the nodes flow f was delegated to by a self.app(...) or __stack__(...)
CalledNodes(f) == {trace[f][k].node : k \in Events(f, "call")}
HandlerRan(f) == Events(f, "handler") # {}

\* the node Route.invoke (line 247) or Audra._handle_http (line 160) handed
\* flow f to: the first node it called
EntryOf(f) == trace[f][CHOOSE k \in Events(f, "call") : \A j \in Events(f, "call") : k <= j].node

NoHookRaised == \A n \in Nodes : hookRaised[n] = 0

(***************************************************************************)
(* C1: when several flows concurrently trigger the first build of the same *)
(* route's chain and the load hooks may suspend, every middleware load     *)
(* hook of the route runs exactly once in total (no hook having raised),   *)
(* and all flows are delegated to the identical entry point.               *)
(***************************************************************************)
C1_RouteBuildSingleFlight ==
    /\ NoHookRaised => \A n \in Nodes : hookRuns[n] <= 1
    /\ \A f, g \in Flows :
         Events(f, "call") # {} /\ Events(g, "call") # {} => EntryOf(f) = EntryOf(g)

(***************************************************************************)
(* C10: a direct Route.invoke with a method outside the route's method set *)
(* is rejected with a method-not-allowed condition that reports the        *)
(* route's own Allow-list, and neither the chain's entry point nor the     *)
(* terminal handler is invoked; with an allowed method the chain is built  *)
(* and the request is delegated to its entry point.                        *)
(***************************************************************************)
C10_DirectInvoke ==
    \A f \in Flows :
      (Finished(f) /\ scope[f].type = "http") =>
        IF scope[f].method \notin _methods(TheRoute)
        THEN /\ outcome[f].kind = "raised"
             /\ outcome[f].error.exc = "HTTPMethodNotAllowed"
             /\ \E k \in Events(f, "FrozenHeaders") : trace[f][k].allow = _methods(TheRoute)
             /\ CalledNodes(f) = {}
             /\ ~HandlerRan(f)
        ELSE NoHookRaised =>
             /\ __has_loaded__[RouteNode(TheRoute)]
             /\ Events(f, "call") # {}
             /\ EntryOf(f) = app[RouteNode(TheRoute)]

(***************************************************************************)
(* C2: when several request flows arrive before the application stack is   *)
(* built (possibly along with the startup flow), every application-level   *)
(* load hook runs exactly once (no hook having raised), every flow is      *)
(* dispatched through the same entry point, and the published entry point  *)
(* is never replaced by a later build.                                     *)
(***************************************************************************)
Published == UNION {{[flow |-> f, at |-> k] : k \in Events(f, "__stack__")} : f \in Flows}

C2_AppBuildSingleFlight ==
    /\ NoHookRaised => \A n \in Nodes : hookRuns[n] <= 1
    /\ \A f, g \in Flows :
         (/\ scope[f].type = "http" /\ Events(f, "call") # {}
          /\ scope[g].type = "http" /\ Events(g, "call") # {}) => EntryOf(f) = EntryOf(g)
    /\ NoHookRaised => Cardinality(Published) <= 1

(***************************************************************************)
(* What the router "router" was asked and what its routes say              *)
(***************************************************************************)
Min(S) == CHOOSE x \in S : \A y \in S : x <= y
RouterList == _routes["router"]
MatchedAt(f, i) == match(RouterList[i], get_route_path(scope[f]), scope[f].method).matched
FullAt(f) == {i \in DOMAIN RouterList : MatchedAt(f, i) = FULL}
MismatchAt(f) == {i \in DOMAIN RouterList : MatchedAt(f, i) = METHOD_MISMATCH}

\* the exception flow f raises or ended with
ErrorOf(f) == IF exc[f] # NoExc THEN exc[f]
              ELSE IF outcome[f].kind = "raised" THEN outcome[f].error ELSE NoExc

\* Router.__call__ got past resolve_path for the HTTP channel f
Dispatched(f) ==
    /\ scope[f].type = "http"
    /\ Events(f, "invoke") # {} \/ ErrorOf(f) # NoExc \/ Finished(f)

InvokedRoutes(f) == {trace[f][k].node[2] : k \in Events(f, "invoke")}

(***************************************************************************)
(* C5: when no route is a FULL match and some routes report                *)
(* METHOD_MISMATCH, resolution fails with a method-not-allowed condition   *)
(* whose Allow-list is the method set of the first (earliest registered)   *)
(* mismatching route.                                                      *)
(***************************************************************************)
C5_AllowOfFirstMismatch ==
    \A f \in Flows :
      (Dispatched(f) /\ FullAt(f) = {} /\ MismatchAt(f) # {}) =>
        /\ ErrorOf(f).exc = "HTTPMethodNotAllowed"
        /\ \E k \in Events(f, "FrozenHeaders") :
             trace[f][k].allow = _methods(RouterList[Min(MismatchAt(f))])

(***************************************************************************)
(* C6: whenever at least one registered route is a FULL match of the       *)
(* request, the router invokes the earliest registered route that is a     *)
(* FULL match, whatever earlier routes reported.                           *)
(***************************************************************************)
C6_EarliestFullMatch ==
    \A f \in Flows :
      (Dispatched(f) /\ FullAt(f) # {}) =>
        InvokedRoutes(f) = {RouterList[Min(FullAt(f))]}

C6_Witness ==
    \E f \in Flows :
      /\ Dispatched(f)
      /\ Cardinality(FullAt(f)) >= 2
      /\ \E i \in MismatchAt(f) : i < Min(FullAt(f))
      /\ InvokedRoutes(f) # {}

(***************************************************************************)
(* C8: for every HTTP request the router's dispatch has exactly one of     *)
(* three outcomes: a fully matching route is invoked; or it fails with     *)
(* method-not-allowed, when no route fully matches and some route matches  *)
(* the path with other methods; or it fails with HTTPNotFound, when no     *)
(* route matches the path.  It never returns without one of them.          *)
(***************************************************************************)
C8_ResolutionOutcomes ==
    \A f \in Flows :
      Dispatched(f) =>
        CASE FullAt(f) # {} ->
               /\ InvokedRoutes(f) # {}
               /\ \A r \in InvokedRoutes(f) : \E i \in FullAt(f) : RouterList[i] = r
               /\ ErrorOf(f) = NoExc
          [] FullAt(f) = {} /\ MismatchAt(f) # {} ->
               /\ InvokedRoutes(f) = {}
               /\ ErrorOf(f).exc = "HTTPMethodNotAllowed"
          [] OTHER ->
               /\ InvokedRoutes(f) = {}
               /\ ErrorOf(f).exc = "HTTPNotFound"

C8_Witness ==
    \E f \in Flows :
      /\ Finished(f)
      /\ scope[f].type = "http"
      /\ Len(RouterList) >= 2
      /\ FullAt(f) = {} /\ MismatchAt(f) = {}
      /\ outcome[f] = Raised(HTTPNotFound)

(***************************************************************************)
(* C9: add_route of a route that is in the list of some router (the same   *)
(* or another) fails with RouteAlreadyExists and changes no router's list; *)
(* a successful add_route puts the route at the end of its router's list   *)
(* and leaves the routes registered before where they were.                *)
(***************************************************************************)
Attached(r) == \E rt \in Routers : r \in Range(_routes[rt])

C9_RouteAttachment ==
    [][ (result' # result \/ _routes' # _routes) =>
          LET r == result'.route
              rt == result'.router
          IN IF Attached(r)
             THEN /\ result'.raised = RouteAlreadyExists(r)
                  /\ _routes' = _routes
             ELSE /\ result'.raised = NoExc
                  /\ Len(_routes'[rt]) = Len(_routes[rt]) + 1
                  /\ _routes'[rt][Len(_routes'[rt])] = r
                  /\ \A q \in Routers :
                       SubSeq(_routes'[q], 1, Len(_routes[q])) = _routes[q]
                  /\ \A q \in Routers \ {rt} : _routes'[q] = _routes[q]
      ]_vars

C9_Witness ==
    /\ result.op = "add_route"
    /\ result.raised = RouteAlreadyExists(result.route)
    /\ result.route \notin Range(_routes[result.router])
    /\ Attached(result.route)
    /\ \A rt \in Routers : Len(_routes[rt]) >= 2

(***************************************************************************)
(* What a lifespan channel did                                             *)
(***************************************************************************)
IsHandlerEvent(e) == e.ev = "handler"
IsSendEvent(e) == e.ev = "send"
TraceFrom(f, k) == SubSeq(trace[f], k + 1, Len(trace[f]))
HandlerNames(evs) ==
    LET hs == SelectSeq(evs, IsHandlerEvent) IN [j \in DOMAIN hs |-> hs[j].handler]

\* the index of the receive that started the phase the event at k belongs to
ReceiveBefore(f, k) ==
    CHOOSE r \in 1..k : /\ trace[f][r].ev = "receive"
                        /\ \A j \in (r + 1)..k : trace[f][j].ev # "receive"

(***************************************************************************)
(* C7: every HTTP flow that went through the application stack, also one   *)
(* in which the handler or a middleware raised (even after a response was  *)
(* started), sent exactly one response-start message followed by exactly   *)
(* one response-body message, and the body message of a response object    *)
(* with body bytes B carries B.                                            *)
(***************************************************************************)
C7_ResponseCardinality ==
    \A f \in Flows :
      (Finished(f) /\ scope[f].type = "http" /\ Events(f, "call") # {}) =>
        /\ Len(sent[f]) = 2
        /\ sent[f][1].type = "http.response.start"
        /\ sent[f][2].type = "http.response.body"
        /\ \A k \in Events(f, "response") :
             /\ sent[f][1].status = trace[f][k].status
             /\ sent[f][2].body = trace[f][k].body

(***************************************************************************)
(* C3: when a startup handler raises while a startup request is handled,   *)
(* the loop sends exactly one startup-failed message and no                *)
(* startup-complete for the request, runs none of the startup handlers     *)
(* registered after the failing one, and halts: nothing is received, no    *)
(* handler runs and nothing else is sent afterwards.                       *)
(***************************************************************************)
C3_StartupFailure ==
    \A f \in Flows :
      /\ \A k \in Events(f, "except") :
           trace[f][k].phase = "startup" =>
             LET r == ReceiveBefore(f, k)
                 exchange == SubSeq(trace[f], r, k)
                 after == TraceFrom(f, k)
                 ran == HandlerNames(exchange)
             IN /\ trace[f][r].type = "lifespan.startup"
                /\ after \in {<<>>, <<[ev |-> "send", type |-> "lifespan.startup.failed"]>>}
                /\ Finished(f) => after # <<>> /\ outcome[f] = Returned
                /\ SelectSeq(exchange, IsSendEvent) = <<>>
                /\ ran = SubSeq(__lifespans__.startup, 1, Len(ran))
                /\ ran[Len(ran)] = trace[f][k].handler
      \* a raising handler is caught at once
      /\ \A k \in Events(f, "handler") :
           (trace[f][k].does = "raise" /\ k < Len(trace[f])) =>
             trace[f][k + 1] = [ev |-> "except", phase |-> trace[f][k].phase,
                                handler |-> trace[f][k].handler]
      \* so is a load hook that raises in the build that _startup starts
      /\ (Finished(f) /\ scope[f].type = "lifespan" /\ frames[f] = <<>>
            /\ \E n \in Nodes : hookRaised[n] > 0 /\ Len(trace[f]) > 0) =>
           \E k \in Events(f, "except") : trace[f][k].handler = InternalStartup

C3_Witness ==
    \E f \in Flows :
      /\ Finished(f)
      /\ Len(__lifespans__.startup) = 3
      /\ \E k \in Events(f, "except") :
           /\ trace[f][k].handler = UserHandler("startup", 1)
           /\ k + 1 = Len(trace[f])
      /\ sent[f] = <<LifespanMessage("lifespan.startup.failed")>>

(***************************************************************************)
(* C4: on a shutdown request the shutdown handlers run in registration     *)
(* order; exactly one of shutdown-complete and shutdown-failed is sent,    *)
(* shutdown-complete exactly when every handler completed; after the first *)
(* failing handler no later one runs; nothing is received afterwards.      *)
(***************************************************************************)
C4_ShutdownHandshake ==
    \A f \in Flows :
      \A k \in Events(f, "receive") :
        trace[f][k].type = "lifespan.shutdown" =>
          LET after == TraceFrom(f, k)
              ran == SelectSeq(after, IsHandlerEvent)
              sends == SelectSeq(after, IsSendEvent)
              all == __lifespans__.shutdown
          IN /\ \A j \in DOMAIN after : after[j].ev \in {"handler", "except", "send"}
             /\ HandlerNames(after) = SubSeq(all, 1, Len(ran))
             /\ \A j \in DOMAIN ran : ran[j].does = "raise" => j = Len(ran)
             /\ Len(sends) <= 1
             /\ Finished(f) => Len(sends) = 1 /\ outcome[f] = Returned
             /\ Len(sends) = 1 =>
                  /\ after[Len(after)] = sends[1]
                  /\ sends[1].type \in {"lifespan.shutdown.complete", "lifespan.shutdown.failed"}
                  /\ sends[1].type = "lifespan.shutdown.complete"
                       <=> /\ Len(ran) = Len(all)
                           /\ \A j \in DOMAIN ran : ran[j].does = "return"

C4_Witness ==
    \E f \in Flows :
      /\ Finished(f)
      /\ Len(__lifespans__.shutdown) = 2
      /\ sent[f] = <<LifespanMessage("lifespan.startup.complete"),
                     LifespanMessage("lifespan.shutdown.failed")>>
      /\ \E k \in Events(f, "except") : trace[f][k].handler = UserHandler("shutdown", 1)


(***************************************************************************)
(* Matching: typed parameters, converters, methods, templates              *)
(***************************************************************************)
RouteOfTemplate(t) == CHOOSE r \in DOMAIN ROUTES : _raw_path(r) = t

ItemsRoute ==
    RouteOfTemplate(<<"/", "i", "t", "e", "m", "s", "/", "{", "i", "d", ":", "i", "n", "t", "}">>)
Items42 == <<"/", "i", "t", "e", "m", "s", "/", "4", "2">>
ItemsAbc == <<"/", "i", "t", "e", "m", "s", "/", "a", "b", "c">>

Matched(r) == result.op = "match" /\ result.route = r

\* C11: for the route of the template /items/{id:int} and a method it
\* allows, matching /items/42 is a FULL match whose parameters are exactly
\* {id: 42}, the value an integer, and matching /items/abc is NONE with no
\* parameter
C11_TypedParameterMatching ==
    (Matched(ItemsRoute) /\ result.method \in _methods(ItemsRoute)) =>
        /\ result.path = Items42 =>
              /\ result.matched = FULL
              /\ result.params = (<<"i", "d">> :> [type |-> "int", value |-> 42])
        /\ result.path = ItemsAbc =>
              /\ result.matched = NONE
              /\ result.params = <<>>

C11_Witness ==
    /\ Matched(ItemsRoute)
    /\ result.method = "GET"
    /\ result.path = Items42
    /\ result.matched = FULL


\* the router was made with Router(converters=RouterOwnConverters): no route
\* brings the tag n
RouterHasOwn == <<"n">> \in DOMAIN _converters.router[TheRouter]

\* the matcher of route r with the router's converters as defaults and the
\* route's own over them
MergedPath(r) ==
    compile_path(_raw_path(r), DictUnion(RouterOwnConverters, InitConverters(r)))

\* C12: after Router.add_route(route), what route.match gives is what the
\* template gives when it is compiled with the router's converters as
\* defaults and the route's own converters over them: a tag of the router
\* only converts with the router's converter, a tag of both with the route's
C12_ConverterMerging ==
    (/\ result.op = "match"
     /\ _has_router[result.route]
     /\ RouterHasOwn
     /\ result.path # _raw_path(result.route)) =>
        LET m == MatchPath(result.route, result.path, result.method, MergedPath(result.route))
        IN /\ result.matched = m.matched
           /\ result.params = m.params


(***************************************************************************)
(* The terminal handler of a route                                         *)
(***************************************************************************)
\* what the channel of a flow carries when the response resp was sent on it
SentAs(f, resp) ==
    /\ outcome[f] = Returned
    /\ sent[f] = <<StartMessage(resp.status), BodyMessage(resp.body)>>

\* C13: a handler that returns no value, an empty string or empty bytes
\* gives an empty 204 response; a response object it returns is sent as it
\* is; a non-empty string or bytes value is sent as a 200 plain-text
\* response with that value as the body
C13_HandlerAdaptation ==
    \A f \in Flows : \A k \in Events(f, "handler") :
        (Finished(f) /\ trace[f][k].returned.kind = "return") =>
            LET v == trace[f][k].returned.value
            IN /\ v \in {NoneValue, Str(<<>>), Bytes(<<>>)} => SentAs(f, EmptyResponse)
               /\ v.type = "Response" => SentAs(f, v.response)
               /\ (v.type \in {"str", "bytes"} /\ v.value # <<>>) => SentAs(f, Response(v, 200))


\* the names a route was registered with, and the spellings of GET
Registered(r) == Range(ROUTES[r].methods)
GetInAnyCase == {"GET", "get", "Get"}

\* the routes that exist once their construction returned
Routes == RouteIds \cup Constructible

\* the path is the route's template or matches its compiled regex
StructuralMatch(r, path) == path = _raw_path(r) \/ RegexMatch(_path(r).regex, path).ok

\* C14: the method set of every route holds uppercase method names only,
\* whatever the case at registration, and holds HEAD whenever GET was
\* registered in any letter case; a HEAD request on a path of a route that
\* was registered with GET only is a FULL match, not a METHOD_MISMATCH
C14_MethodNormalisation ==
    /\ \A r \in Routes :
          /\ _methods(r) \subseteq HTTPMethods
          /\ \A m \in Registered(r) : Upper(m) \in _methods(r)
          /\ (Registered(r) \cap GetInAnyCase # {}) => "HEAD" \in _methods(r)
    /\ (/\ result.op = "match"
        /\ result.method = "HEAD"
        /\ Registered(result.route) \subseteq GetInAnyCase) =>
          /\ result.matched # METHOD_MISMATCH
          /\ StructuralMatch(result.route, result.path) => result.matched = FULL

C14_Witness ==
    /\ result.op = "match"
    /\ result.method = "HEAD"
    /\ Registered(result.route) = {"Get"}
    /\ result.matched = FULL


\* a template is malformed when a brace is left outside its parameter
\* markers {name} and {name:type}: the braces do not balance, or what they
\* hold is no name of the allowed characters
Malformed(t) ==
    \E k \in DOMAIN compile_path(t, BASE_CONVERTERS).regex :
        LET e == compile_path(t, BASE_CONVERTERS).regex[k]
        IN e.kind = "lit" /\ Range(e.chars) \cap {"{", "}"} # {}

\* C16: constructing a Route whose template is malformed (unbalanced
\* braces, a parameter name outside the allowed characters) raises at
\* construction, and no such route is ever registered or matched
C16_MalformedTemplateRejected ==
    /\ (result.op = "Route" /\ Malformed(_raw_path(result.route))) => result.raised # NoExc
    /\ result.op \in {"add_route", "match"} => ~Malformed(_raw_path(result.route))


(***************************************************************************)
(* Reading the body of a request                                           *)
(***************************************************************************)
IsDisconnect(e) == e.ev = "receive" /\ e.type = "http.disconnect"

\* C15: when a read of the body (Request.body or Request.stream) receives
\* a disconnect message, the read raises ClientDisconnected at once: the
\* next thing the flow does is to take that exception in the caller of the
\* read, with no receive, no chunk and no returned body in between, and the
\* request does not say that its body is fetched
C15_DisconnectDuringBodyRead ==
    \A f \in Flows : \A k \in DOMAIN trace[f] :
        IsDisconnect(trace[f][k]) =>
            IF k = Len(trace[f])
            THEN /\ exc[f] = ClientDisconnected
                 /\ ~request[f]._fetched
            ELSE trace[f][k + 1] = [ev |-> "except", error |-> ClientDisconnected,
                                    fetched |-> FALSE]

\* a body() call got a chunk that is not the last, then the disconnect, and
\* its caller took the exception
C15_Witness ==
    \E f \in Flows : \E k \in DOMAIN trace[f] :
        /\ IsDisconnect(trace[f][k])
        /\ k > 2
        /\ trace[f][k - 1].ev = "yield"
        /\ k < Len(trace[f])
        /\ trace[f][k + 1].ev = "except"
        /\ \E j \in 1..k : trace[f][j].ev = "read" /\ trace[f][j].fn = "Request.body"


(***************************************************************************)
(* Chains in use                                                           *)
(***************************************************************************)
\* the nodes that a chain build loads: the entries of a middleware list
\* that have a load hook
Stateful(n) == n[1] \in {"Middleware", "ExceptionMiddleware"}

\* the terminal node of a chain: the router, or the route itself
Terminal(n) == n[1] \in {"Router", "Route"}

\* from n on every node has its successor set, down to a terminal node
RECURSIVE LinkedFrom(_, _)
LinkedFrom(n, left) ==
    \/ Terminal(n)
    \/ /\ n # NoNode
       /\ left > 0
       /\ app[n] # NoNode
       /\ LinkedFrom(app[n], left - 1)

\* the middleware nodes that flow f is in with a request
Invoked(f) ==
    {frames[f][k].node : k \in {j \in DOMAIN frames[f] :
        frames[f][j].fn \in {"Middleware.__call__", "ExceptionMiddleware.__call__"}}}

\* C17: in every interleaving of the request flows and the startup flow, a
\* middleware node with a load hook is in use with a request only after a
\* run of its hook returned, and a flow is only ever delegated to a node
\* from which every successor is set down to the terminal node
C17_NoUseBeforeLoad ==
    \A f \in Flows : \A n \in Invoked(f) :
        /\ n # NoNode
        /\ Stateful(n) => (__has_loaded__[n] /\ hookRuns[n] > hookRaised[n])
        /\ LinkedFrom(n, Cardinality(Nodes))

\* a request is in a middleware of the application and another flow is
\* suspended in a load hook
C17_Witness ==
    \E f, g \in Flows :
        /\ f # g
        /\ Mw(1) \in Invoked(f)
        /\ frames[g] # <<>>
        /\ Top(g).at = "hook"


(***************************************************************************)
(* The lifecycle of one channel                                            *)
(***************************************************************************)
\* a startup-complete message was sent on f's channel before event k
StartupCompleteBefore(f, k) ==
    \E j \in 1..(k - 1) : trace[f][j] = [ev |-> "send", type |-> "lifespan.startup.complete"]

\* event k is the loop running a shutdown handler or answering a shutdown
ShutdownWork(f, k) ==
    \/ trace[f][k].ev = "handler" /\ trace[f][k].phase = "shutdown"
    \/ /\ trace[f][k].ev = "send"
       /\ trace[f][k].type \in {"lifespan.shutdown.complete", "lifespan.shutdown.failed"}

\* C18: on one lifecycle channel a shutdown handler runs, and
\* shutdown-complete or shutdown-failed is sent, only after a
\* startup-complete message was sent on that channel
C18_ShutdownOnlyWhenRunning ==
    \A f \in Flows : \A k \in DOMAIN trace[f] :
        ShutdownWork(f, k) => StartupCompleteBefore(f, k)

\* C19: whatever the channel delivers, every startup handler is run at most
\* once on the channel and at most one startup-complete message is sent
C19_StartupAtMostOnce ==
    \A f \in Flows :
        /\ Cardinality({k \in Events(f, "send") :
                            trace[f][k].type = "lifespan.startup.complete"}) <= 1
        /\ \A h \in Range(__lifespans__.startup) :
              Cardinality({k \in Events(f, "handler") : trace[f][k].handler = h}) <= 1

\* the events from the receive at k up to the next receive
Handling(f, k) ==
    LET later == {r \in Events(f, "receive") : r > k}
        last == IF later = {} THEN Len(trace[f]) ELSE (CHOOSE r \in later : \A q \in later : r <= q) - 1
    IN SubSeq(trace[f], k + 1, last)

IsExceptEvent(e) == e.ev = "except"

\* C20: while a startup request is handled and no startup handler has
\* raised, the handlers that ran are the first ones of the registered list,
\* once each and in registration order, each called with the state of the
\* channel's scope; nothing is sent before all of them returned, then one
\* startup-complete is sent and nothing else, and the loop is receiving
\* again
C20_SuccessfulStartup ==
    \A f \in Flows : \A k \in Events(f, "receive") :
        (trace[f][k].type = "lifespan.startup"
            /\ SelectSeq(Handling(f, k), IsExceptEvent) = <<>>) =>
          LET during == Handling(f, k)
              ran == SelectSeq(during, IsHandlerEvent)
              sends == SelectSeq(during, IsSendEvent)
              all == __lifespans__.startup
              ended == k + Len(during) = Len(trace[f])
          IN /\ HandlerNames(during) = SubSeq(all, 1, Len(ran))
             /\ \A j \in DOMAIN ran : ran[j].state = scope[f].state /\ ran[j].phase = "startup"
             /\ sends \in {<<>>, <<[ev |-> "send", type |-> "lifespan.startup.complete"]>>}
             /\ sends # <<>> =>
                  /\ during[Len(during)] = sends[1]
                  /\ Len(ran) = Len(all)
                  /\ ended => HasTop(f, "Audra._lifespan_handler", "receive")
             /\ (ended /\ sends = <<>>) => ~Finished(f)

\* two declared startup handlers and the internal one ran on a startup
\* request with the server's state dict, startup-complete was sent and the
\* loop received the next message
C20_Witness ==
    \E f \in Flows :
        /\ scope[f].state = "dict"
        /\ Len(__lifespans__.startup) = 3
        /\ Len(received[f]) = 2
        /\ received[f][1].type = "lifespan.startup"
        /\ HandlerNames(Handling(f, 1)) = __lifespans__.startup
        /\ sent[f] = <<LifespanMessage("lifespan.startup.complete")>>


(***************************************************************************)
(* Startup and the application chain                                       *)
(***************************************************************************)
\* the middleware of the application's list that have a load hook, em being
\* the ExceptionMiddleware of the published stack
AppHooked(em) == {m \in Range(AppMiddlewares(em)) : IsMiddleware(m)}

\* the application-level load hooks flow f ran: those of the user's
\* middleware and of the ExceptionMiddleware of its own build
AppHooksRun(f) ==
    {k \in Events(f, "on_load") :
        trace[f][k].node \in Range(_user_middleware) \cup Range(__middleware__) \cup {Em(f)}}

\* C21: the internal startup handler is called before every declared
\* startup handler; with build_on_startup, once startup-complete has been
\* sent the stack is published and every load hook of its middleware has
\* returned, and an HTTP flow that arrived after startup-complete runs no
\* application-level load hook
C21_StartupBuildsChain ==
    /\ __lifespans__.startup[1] = InternalStartup
    /\ \A f \in Flows : \A k \in Events(f, "handler") :
          (scope[f].type = "lifespan" /\ trace[f][k].phase = "startup"
                /\ trace[f][k].handler # InternalStartup) =>
             \E j \in 1..(k - 1) :
                /\ trace[f][j].ev = "handler"
                /\ trace[f][j].handler = InternalStartup
                /\ j > ReceiveBefore(f, k)
    /\ (_build_on_startup /\ StartupCompleteSent) =>
          /\ __stack__ # NoNode
          /\ \A m \in AppHooked(__stack__) :
                __has_loaded__[m] /\ hookRuns[m] > hookRaised[m]
          /\ LinkedFrom(__stack__, Cardinality(Nodes))
          /\ \A f \in Flows : \A k \in Events(f, "request") :
                trace[f][k].started => AppHooksRun(f) = {}

\* startup built a stack with a user middleware that has a load hook, and a
\* request that arrived after startup-complete reached the handler
C21_Witness ==
    /\ _build_on_startup
    /\ StartupCompleteSent
    /\ Mw(1) \in Range(_user_middleware)
    /\ hookRuns[Mw(1)] = 1
    /\ \E f \in Flows :
          /\ \E k \in Events(f, "request") : trace[f][k].started
          /\ HandlerRan(f)


(***************************************************************************)
(* A load hook that raises                                                 *)
(***************************************************************************)
\* no flow but f has published the application stack
OnlyBuilder(f) == \A g \in Flows \ {f} : Events(g, "__stack__") = {}

\* no flow but f has been in Route.invoke of the route node r
OnlyInvoker(f, r) ==
    \A g \in Flows \ {f} : \A k \in Events(g, "invoke") : trace[g][k].node # r

\* what a lifespan flow does after the fault: the loop takes it from
\* _startup and sends startup-failed
StartupFailedTail ==
    <<[ev |-> "except", phase |-> "startup", handler |-> InternalStartup],
      [ev |-> "send", type |-> "lifespan.startup.failed"]>>

\* C22: when a load hook raises in a build, the flow that ran the build
\* runs no further load hook, publishes no entry point (the route stays
\* not built and the stack unset, unless another flow built them), never
\* reaches a terminal handler, and is given the MiddlewareLoadException;
\* a lifespan flow answers with startup-failed and never startup-complete
C22_FailingHookAbortsBuild ==
    \A f \in Flows : \A k \in Events(f, "raise") :
        LET fault == trace[f][k].error
            after == TraceFrom(f, k)
        IN /\ fault.exc = "MiddlewareLoadException"
           /\ \A j \in DOMAIN after :
                 after[j].ev \notin {"on_load", "__stack__", "call", "invoke", "handler", "raise"}
           /\ fault.owner = AppNode =>
                 /\ Events(f, "__stack__") = {}
                 /\ OnlyBuilder(f) => __stack__ = NoNode
           /\ (fault.owner # AppNode /\ OnlyInvoker(f, fault.owner)) =>
                 ~__has_loaded__[fault.owner] /\ app[fault.owner] = NoNode
           /\ IF scope[f].type = "lifespan"
              THEN /\ after = SubSeq(StartupFailedTail, 1, Len(after))
                   /\ sent[f] = IF Len(after) = 2
                                THEN <<LifespanMessage("lifespan.startup.failed")>> ELSE <<>>
                   /\ Finished(f) => Len(after) = 2 /\ outcome[f] = Returned
              ELSE /\ Events(f, "handler") = {}
                   /\ IF fault.owner = AppNode
                      THEN /\ after = <<>>
                           /\ ErrorOf(f) = fault
                           /\ sent[f] = <<>>
                      ELSE \/ after = <<>> /\ exc[f] = fault
                           \/ /\ Len(after) = 1
                              /\ after[1].ev = "test"
                              /\ after[1].error = fault
                              /\ \A j \in DOMAIN sent[f] :
                                     sent[f][j].type = "http.response.start" => sent[f][j].status = 500

\* startup failed on a load hook of the application's middleware and sent
\* startup-failed; a request then built the stack and failed on a load
\* hook of its route's middleware
C22_Witness ==
    \E f, g \in Flows :
        /\ scope[f].type = "lifespan" /\ Finished(f)
        /\ \E k \in Events(f, "raise") : trace[f][k].hook = Mw(1)
        /\ sent[f] = <<LifespanMessage("lifespan.startup.failed")>>
        /\ scope[g].type = "http" /\ Finished(g)
        /\ \E k \in Events(g, "raise") : trace[g][k].hook = Mw(2)


\* C23: the MiddlewareLoadException raised when a load hook fails names the
\* middleware whose hook failed, and the route owning the build
C23_FaultNamesOffender ==
    \A f \in Flows : \A k \in Events(f, "raise") :
        /\ trace[f][k].error.node = trace[f][k].hook
        /\ trace[f][k].error.owner # AppNode =>
              trace[f][k].hook \in Range(_middleware[trace[f][k].error.owner[2]])


(***************************************************************************)
(* Builds that come after a build                                          *)
(***************************************************************************)
InBuild(st) ==
    \E k \in DOMAIN st : st[k].fn \in {"Route._build_middleware", "Audra._build_middleware"}

\* C24: a load hook that has returned is never run again, neither by a
\* later invocation or build nor by the build retried after a build failed
\* on another node; a flow that invokes a built route starts no build, and
\* the entry point of the route the flows invoke, once built, stays what it
\* is (the successor of another Route that this route lists as middleware
\* is set by this route's build like that of any middleware)
C24_BuildIdempotent ==
    [][/\ \A m \in Nodes :
             /\ hookRuns'[m] # hookRuns[m] => ~__has_loaded__[m]
             /\ __has_loaded__[m] => __has_loaded__'[m]
             /\ __has_loaded__'[m] /\ ~__has_loaded__[m] /\ m[1] # "Route" =>
                   \E f \in Flows : InBuild(frames[f]) /\ frames'[f] # frames[f]
       /\ \A f \in Flows :
             /\ (HasTop(f, "Route.invoke", "enter") /\ __has_loaded__[Top(f).node]) =>
                   ~InBuild(frames'[f])
             /\ trace'[f] # trace[f] /\ trace'[f][Len(trace'[f])].ev \in {"on_load", "raise"} =>
                   InBuild(frames[f])
       /\ __has_loaded__[RouteNode(TheRoute)] =>
             app'[RouteNode(TheRoute)] = app[RouteNode(TheRoute)]
      ]_vars

\* a build of [Middleware 1, Middleware 2] failed on the hook of
\* Middleware 1 after that of Middleware 2 had returned; the next flow's
\* build ran the hook of Middleware 1 again and that of Middleware 2 not,
\* and the request reached the handler
C24_Witness ==
    /\ _middleware[TheRoute] = <<Mw(1), Mw(2)>>
    /\ hookRuns[Mw(1)] = 2 /\ hookRaised[Mw(1)] = 1
    /\ hookRuns[Mw(2)] = 1 /\ hookRaised[Mw(2)] = 0
    /\ \E f, g \in Flows :
          /\ Finished(f) /\ Events(f, "raise") # {}
          /\ Events(g, "on_load") # {} /\ HandlerRan(g)


(***************************************************************************)
(* Messages the lifespan loop has no branch for                            *)
(***************************************************************************)
\* C25: a message on the lifespan channel that is neither lifespan.startup
\* nor lifespan.shutdown is not passed over: the loop is not back at
\* "await receive()" with nothing raised and nothing sent for it, and it
\* does not go on to take the next message
C25_ForeignMessageRejected ==
    \A f \in Flows : \A k \in Events(f, "receive") :
        trace[f][k].type \notin {"lifespan.startup", "lifespan.shutdown"} =>
            /\ ErrorOf(f) # NoExc
            /\ TraceFrom(f, k) = <<>>


(***************************************************************************)
(* The order of a chain                                                    *)
(***************************************************************************)
IsCallEvent(e) == e.ev = "call"

\* the nodes flow f was handed to, in the order of the calls
CallSeq(f) ==
    LET calls == SelectSeq(trace[f], IsCallEvent) IN [j \in DOMAIN calls |-> calls[j].node]

\* the chain of the list lst in front of the terminal node t is linked in
\* list order from the entry point on
ChainOf(lst, t) == lst \o <<t>>

InListOrder(lst, t) ==
    \A j \in DOMAIN lst : app[lst[j]] = ChainOf(lst, t)[j + 1]

\* C26: a built route with the list [m1, ..., mn] has m1 as its entry point
\* (itself with the empty list), m(i+1) as successor of mi and itself, the
\* terminal handler, as successor of mn, in every state another coroutine
\* can see, which is every state where no flow is between two awaits of a
\* build (the build of a Route the list holds sets that Route's successor
\* to the head of its own list at line 229 and the loop of the listing
\* route links it again at line 226, with no await in between); a flow is
\* handed to m1, ..., mn and the route in this order, and reaches the
\* route's handler after all of them (a Route listed as middleware answers
\* with its own handler and forwards to no successor)
C26_RouteChainOrder ==
    LET r == RouteNode(TheRoute)
        lst == _middleware[TheRoute]
    IN /\ (__has_loaded__[r] /\ \A f \in Flows : InBuild(frames[f]) => running # f) =>
             /\ app[r] = ChainOf(lst, r)[1]
             /\ InListOrder(lst, r)
       /\ \A f \in Flows :
             /\ Len(CallSeq(f)) <= Len(lst) + 1
             /\ CallSeq(f) = SubSeq(ChainOf(lst, r), 1, Len(CallSeq(f)))
             /\ \A k \in Events(f, "handler") :
                   trace[f][k].node = r =>
                      /\ CallSeq(f) = ChainOf(lst, r)
                      /\ \A j \in Events(f, "call") : j < k

\* a request went through [Middleware 2, ASGIMiddleware 1] to the handler
C26_Witness ==
    /\ _middleware[TheRoute] = <<Mw(2), Asgi(1)>>
    /\ \E f \in Flows :
          /\ HandlerRan(f)
          /\ CallSeq(f) = <<Mw(2), Asgi(1), RouteNode(TheRoute)>>


\* the frames of flow f that an exception in flight has still to leave
\* include the try of an ExceptionMiddleware
Guarded(f) ==
    \E k \in DOMAIN frames[f] :
        frames[f][k].fn = "ExceptionMiddleware.__call__" /\ frames[f][k].at = "try"

\* C27: the published stack is the ExceptionMiddleware, then the class's
\* middleware in declared order, then the constructor's in declared order,
\* then the Router; an HTTP flow is handed to them in this order, so an
\* exception raised in a middleware, the router, a route or a handler is
\* raised inside the try of the ExceptionMiddleware, which takes it, and
\* the flow does not end with it
C27_AppChainOrder ==
    /\ __stack__ # NoNode =>
          /\ __stack__[1] = "ExceptionMiddleware"
          /\ InListOrder(<<__stack__>> \o __middleware__ \o _user_middleware, RouterNode)
    /\ \A f \in Flows :
          (scope[f].type = "http" /\ CallSeq(f) # <<>>) =>
             LET chain == <<CallSeq(f)[1]>> \o __middleware__ \o _user_middleware \o <<RouterNode>>
                 n == IF Len(CallSeq(f)) < Len(chain) THEN Len(CallSeq(f)) ELSE Len(chain)
             IN /\ CallSeq(f)[1][1] = "ExceptionMiddleware"
                /\ SubSeq(CallSeq(f), 1, n) = SubSeq(chain, 1, n)
                /\ (exc[f] # NoExc /\ frames[f] # <<>>) => Guarded(f)
                /\ outcome[f].kind # "raised"

\* a request went through the class's ASGIMiddleware and the constructor's
\* Middleware to the router and on to a handler that raised, and the
\* ExceptionMiddleware took the exception
C27_Witness ==
    /\ __middleware__ = <<Asgi(1)>>
    /\ _user_middleware = <<Mw(1)>>
    /\ \E f \in Flows :
          /\ Len(CallSeq(f)) >= 4
          /\ SubSeq(CallSeq(f), 1, 4) = <<Em(f), Asgi(1), Mw(1), RouterNode>>
          /\ \E k \in Events(f, "test") : trace[f][k].error = Exception("handler")


(***************************************************************************)
(* Successors once set                                                     *)
(***************************************************************************)
\* C28: once a build has set the successor of a middleware, no later step
\* changes it, whether of a build of the same chain or of a build of
\* another chain that lists the same instance
C28_SuccessorImmutable ==
    [][\A m \in MiddlewarePool : app[m] # NoNode => app'[m] = app[m]]_vars


(***************************************************************************)
(* Templates read segment by segment                                       *)
(***************************************************************************)
\* the segments of a path or template: what stands between its slashes
RECURSIVE Segments(_)
Segments(p) ==
    IF p = <<>> THEN <<>>
    ELSE LET rest == Tail(p)
             stop == IF "/" \in Range(rest)
                     THEN (CHOOSE k \in DOMAIN rest :
                              rest[k] = "/" /\ \A j \in 1..(k - 1) : rest[j] # "/") - 1
                     ELSE Len(rest)
         IN <<SubSeq(rest, 1, stop)>> \o Segments(SubSeq(rest, stop + 1, Len(rest)))

IsParameter(seg) == seg # <<>> /\ seg[1] = "{" /\ seg[Len(seg)] = "}"

\* a segment of a path is what a segment of the template asks for: the
\* same characters, or for a parameter without a type one character or
\* more
Accepts(tseg, seg) == IF IsParameter(tseg) THEN seg # <<>> ELSE seg = tseg

Fits(t, path) ==
    /\ Len(Segments(path)) = Len(Segments(t))
    /\ \A k \in DOMAIN Segments(t) : Accepts(Segments(t)[k], Segments(path)[k])

LiteralAfterParameter == RouteOfTemplate(<<"/", "a", "/", "{", "x", "}", "/", "b">>)

\* C29: for the template /a/{x}/b, where a literal segment follows a
\* parameter, a path matches structurally exactly when it is the template
\* with the parameter replaced by a string of one character or more
\* without a slash: /a/1/b matches, /a/1b, /a/1 and /a/1/b/e do not
C29_LiteralAfterParameter ==
    Matched(LiteralAfterParameter) =>
        (result.matched # NONE <=> Fits(_raw_path(LiteralAfterParameter), result.path))


(***************************************************************************)
(* Handler return values of no supported shape                             *)
(***************************************************************************)
\* a value a handler returned that is neither None, nor text or bytes, nor
\* a response object
Unsupported(v) == v.type \notin {NoneValue.type, "str", "bytes", "Response"}

\* the handler of the request of flow f returned such a value
ReturnedUnsupported(f) ==
    /\ scope[f].type = "http"
    /\ \E k \in Events(f, "handler") :
          /\ trace[f][k].returned.kind = "return"
          /\ Unsupported(trace[f][k].returned.value)

\* C30: a request to the application whose handler returns a value of no
\* supported shape (a mapping) is answered with the error page of status
\* 500: no response of another status, and no empty response, is sent
C30_UnsupportedReturnIsFault ==
    \A f \in Flows :
        ReturnedUnsupported(f) =>
            /\ \A k \in DOMAIN sent[f] :
                  sent[f][k].type = "http.response.start" => sent[f][k].status = 500
            /\ Finished(f) => SentAs(f, ErrorPage(HTTPInternalServerError))

\* a handler returned a mapping and the 500 page went out
C30_Witness ==
    \E f \in Flows :
        /\ ReturnedUnsupported(f)
        /\ Finished(f)
        /\ sent[f] = <<StartMessage(500), BodyMessage(ErrorPage(HTTPInternalServerError).body)>>


(***************************************************************************)
(* A converter that raises                                                 *)
(***************************************************************************)
\* a convert raised while the router resolved the request of flow f
ConvertFailed(f) == Events(f, "convert") # {}

\* C31: when a converter raises while a parameter of a request is
\* converted, whose path and method match the route, no handler is invoked
\* and the request ends with a client-error condition, an HTTP exception of
\* a status from 400 to 499, not with another exception
C31_ConversionFailureIsClientError ==
    \A f \in Flows :
        ConvertFailed(f) =>
            /\ ~HandlerRan(f)
            /\ Finished(f) =>
                  /\ outcome[f].kind = "raised"
                  /\ "status" \in DOMAIN outcome[f].error
                  /\ outcome[f].error.status \in 400..499


(***************************************************************************)
(* The end of the lifespan loop                                            *)
(***************************************************************************)
TerminalMessages ==
    {"lifespan.shutdown.complete", "lifespan.shutdown.failed", "lifespan.startup.failed"}

LastSent(f) == sent[f][Len(sent[f])].type

\* the handlers of the shutdown request that was received last all ran
\* and none of them raised
ShutdownSucceeded(f) ==
    LET got == {k \in Events(f, "receive") : trace[f][k].type = "lifespan.shutdown"}
    IN /\ got # {}
       /\ LET k0 == CHOOSE k \in got : \A j \in got : j <= k
              ran == {k \in Events(f, "handler") : k > k0}
          IN /\ Cardinality(ran) = Len(__lifespans__.shutdown)
             /\ \A k \in ran : trace[f][k].phase = "shutdown"
             /\ \A k \in Events(f, "except") : k < k0

\* the lifespan loop of the channel ended as it should
Terminated(f) ==
    /\ outcome[f] = Returned
    /\ sent[f] # <<>>
    /\ LastSent(f) \in TerminalMessages
    /\ Cardinality({k \in DOMAIN sent[f] : sent[f][k].type \in TerminalMessages}) = 1
    /\ LastSent(f) = "lifespan.shutdown.complete" => ShutdownSucceeded(f)

\* C32: on a channel that passes lifespan requests and in the end a
\* shutdown request, with handlers and sends that terminate, the lifespan
\* loop terminates; when it has, the last message it sent is the one
\* shutdown-complete, shutdown-failed or startup-failed message of the
\* channel, and it is shutdown-complete only when every shutdown handler
\* ran and none raised
C32_LifecycleTerminates ==
    /\ <>Finished(1)
    /\ [](Finished(1) => Terminated(1))

\* the loop ended with a failed shutdown after a startup that completed
C32_Witness ==
    /\ Terminated(1)
    /\ Len(sent[1]) >= 2
    /\ sent[1][1].type = "lifespan.startup.complete"
    /\ LastSent(1) = "lifespan.shutdown.failed"


(***************************************************************************)
(* The lifespan registry and several application objects                   *)
(***************************************************************************)
Occurrences(seq, x) == Cardinality({k \in DOMAIN seq : seq[k] = x})

\* C33: whatever number of application objects was constructed, the
\* startup and the shutdown sequence hold every declared handler exactly
\* once, the startup sequence holds the internal startup handler exactly
\* once, at its first position, and a handler is invoked with the
\* application object whose lifespan channel is being served
C33_RegistryDuplicateFree ==
    /\ \A phase \in {"startup", "shutdown"} : \A h \in Range(__lifespans__[phase]) :
          Occurrences(__lifespans__[phase], h) = 1
    /\ __lifespans__.startup[1] = InternalStartup
    /\ \A f \in Flows : \A k \in Events(f, "handler") :
          scope[f].type = "lifespan" => trace[f][k].self = AppNode


(***************************************************************************)
(* Routes that list the same middleware                                    *)
(***************************************************************************)
\* the route whose invoke the flow f is in
InvokedRoute(f) == frames[f][1].node

\* C34: whatever chains were built before, a request that Route.invoke of
\* a route delegates is handed to the middleware of that route's list in
\* list order and then to that route, and the handler that runs is that
\* route's, also when two routes list the same middleware instance
C34_ChainIsolation ==
    \A f \in Flows :
        (frames[f] # <<>> /\ frames[f][1].fn = "Route.invoke") =>
            LET r == InvokedRoute(f)
                chain == ChainOf(_middleware[r[2]], r)
                n == Len(CallSeq(f))
            IN /\ n <= Len(chain)
               /\ CallSeq(f) = SubSeq(chain, 1, n)
               /\ \A k \in Events(f, "handler") : trace[f][k].node = r


(***************************************************************************)
(* The converters of a router                                              *)
(***************************************************************************)
\* C35: adding routes leaves the converter map of every router as the
\* router was constructed with it, and the map of a route holds the
\* router's converters and the route's own only: a converter that another
\* route brought is in neither
C35_RouterConvertersUnchanged ==
    /\ \A rt \in Routers : _converters.router[rt] = ConstructedConverters.router[rt]
    /\ \A r \in RouteIds :
          DOMAIN _converters.route[r]
              \subseteq DOMAIN BASE_CONVERTERS \cup DOMAIN ROUTES[r].converters


(***************************************************************************)
(* The Allow header of a method-not-allowed condition                      *)
(***************************************************************************)
\* the exception that flow f is raising or ended with
Raising(f) == IF exc[f] # NoExc THEN exc[f]
              ELSE IF outcome[f].kind = "raised" THEN outcome[f].error ELSE NoExc

\* C36: a method-not-allowed condition that is raised carries the headers
\* it was constructed with: the Allow-list that was built for it can be
\* read from the exception
C36_AllowRetained ==
    \A f \in Flows :
        Raising(f).exc = "HTTPMethodNotAllowed" =>
            /\ "headers" \in DOMAIN Raising(f)
            /\ \E k \in Events(f, "FrozenHeaders") : Raising(f).headers = trace[f][k].allow


(***************************************************************************)
(* The body of a request after its end                                     *)
(***************************************************************************)
\* the number of messages flow f had received before the event k
ReceivedBefore(f, k) == Cardinality({j \in Events(f, "receive") : j < k})

\* the body chunks of the first n messages, joined in the order of arrival
RECURSIVE Chunks(_, _)
Chunks(msgs, n) ==
    IF n = 0 THEN <<>>
    ELSE Chunks(msgs, n - 1)
         \o IF msgs[n].type = "http.request" THEN msgs[n].body ELSE <<>>

\* one of the first n messages is the last of the body
EndOfBody(msgs, n) ==
    \E j \in 1..n : msgs[j].type = "http.request" /\ ~msgs[j].more_body

\* the call of body() that the event k returns from
CallOf(f, k) ==
    CHOOSE j \in Events(f, "read") :
        /\ j < k
        /\ trace[f][j].fn = "Request.body"
        /\ \A q \in Events(f, "read") : (q < k /\ trace[f][q].fn = "Request.body") => q <= j

\* C37: a call of Request.body() that is made after the end of the body
\* was received returns all the body chunks received, joined in the order
\* of arrival, and receives nothing, whether the body was read before with
\* body() or with stream(), memorizing or not
C37_BodyMemoised ==
    \A f \in Flows : \A k \in Events(f, "return") :
        LET n == ReceivedBefore(f, CallOf(f, k))
        IN EndOfBody(received[f], n) =>
              /\ ReceivedBefore(f, k) = n
              /\ trace[f][k].value = Chunks(received[f], n)

=============================================================================
